---- MODULE Spec2Model ----
(***************************************************************************)
(* Model of the NVIDIA earnings analyzer's insight pipeline:               *)
(*   - TrendAnalyzer        (src/app/lib/trend-analyzer.ts)                *)
(*   - AnalysisEngine       (src/app/lib/analysis-engine.ts)               *)
(*   - TranscriptCollector  (src/app/lib/transcript-collector.ts)          *)
(* Strings that the code inspects character by character (quarter labels)  *)
(* are sequences of one-character strings.  Sentiment scores are IEEE-754  *)
(* binary64 values, kept as exact multiples of 2^-56 in two 30-bit limbs.  *)
(***************************************************************************)
EXTENDS Integers, Sequences, FiniteSets, TLC

VARIABLES
    insights,   \* TrendAnalyzer: the caller's QuarterlyInsights[] array
    given,      \* TrendAnalyzer: the array's contents when analyzeQuarterOverQuarter was called
    tpc,        \* TrendAnalyzer: "input" | "done"
    report,     \* TrendAnalyzer: value returned (or thrown) by analyzeQuarterOverQuarter
    docs,       \* AnalysisEngine: the transcripts passed to analyzeMultipleTranscripts
    epc,        \* AnalysisEngine: "input" | "loop" | "analyzing" | "sleeping" | "done"
    docIdx,     \* AnalysisEngine: position of the for-of loop in docs
    calls,      \* AnalysisEngine: the three promises of the current analyzeTranscript
    received,   \* AnalysisEngine: the response each request of the current transcript got
    results,    \* AnalysisEngine: the results array of analyzeMultipleTranscripts
    outcomes,   \* AnalysisEngine: per transcript, how analyzeTranscript ended
    elog,       \* AnalysisEngine: analyses started and delays slept, in order
    wire,       \* AnalysisEngine: requests issued and responses received for the current transcript
    apc,        \* TranscriptCollector: "idle" | "search" | "scrape" | "backoff" | "pause" | "done"
    quarters,   \* TranscriptCollector: the requested count
    today,      \* TranscriptCollector: the calendar day new Date() falls on during the run
    srcIdx,     \* TranscriptCollector: the next source findNvidiaTranscriptUrls will search
    urls,       \* TranscriptCollector: candidates found so far, then the capped list
    candIdx,    \* TranscriptCollector: the candidate being scraped
    retries,    \* TranscriptCollector: scrapeTranscript's retries counter
    waits,      \* TranscriptCollector: the backoff delays slept for the current candidate
    transcripts,\* TranscriptCollector: the transcripts scraped so far
    acquired,   \* TranscriptCollector: the value collectNvidiaTranscripts returned
    dbTranscripts, \* InMemoryDatabase: the transcripts map, id -> transcript
    returned,   \* POST: what collectNvidiaTranscripts returned to each request so far
    dbInsights, \* InMemoryDatabase: the insights map, transcriptId -> insights
    puts,       \* InMemoryDatabase: the save calls made directly on the store, in order
    ppc,        \* POST: per request, "idle" | "check" | "analyze" | "save" | "done"
    held,       \* POST: per request, the transcripts the collector returned
    need,       \* POST: per request, the needAnalysis list
    allInsights,\* POST: per request, the allInsights list
    analyses,   \* POST: the transcript ids handed to the analysis engine, in order
    text,       \* splitTranscript: the transcript text passed in
    parts       \* splitTranscript: the value returned

trendVars == <<insights, given, tpc, report>>

engineVars == <<docs, epc, docIdx, calls, received, results, outcomes, elog, wire>>

collectorVars ==
    <<apc, quarters, today, srcIdx, urls, candIdx, retries, waits, transcripts, acquired>>

storeVars == <<dbTranscripts, returned, dbInsights, puts>>

pipelineVars == <<ppc, held, need, allInsights, analyses>>

splitVars == <<text, parts>>

vars == <<insights, given, tpc, report,
          docs, epc, docIdx, calls, received, results, outcomes, elog, wire,
          apc, quarters, today, srcIdx, urls, candIdx, retries, waits, transcripts, acquired,
          dbTranscripts, returned, dbInsights, puts,
          ppc, held, need, allInsights, analyses, text, parts>>

(***************************************************************************)
(* Bounds of the model                                                     *)
(***************************************************************************)
MaxRecords == 3

(***************************************************************************)
(* IEEE-754 binary64 arithmetic on the score grid.                         *)
(* A number is [neg, hi, lo] standing for (+/-)(hi * 2^30 + lo) * 2^-56.   *)
(***************************************************************************)
Limb == 1073741824

\* 2^23 limbs-high: magnitudes below hi = 2^23 have at most 53 significant bits
ExactHi == 8388608

Num(neg, hi, lo) == [neg |-> neg, hi |-> hi, lo |-> lo]

Zero == Num(FALSE, 0, 0)

\* The binary64 value nearest to the decimal literal k/10, for k in 0..10
TenthMag(k) ==
    CASE k = 0  -> Num(FALSE, 0, 0)
      [] k = 1  -> Num(FALSE, 6710886, 429496730)
      [] k = 2  -> Num(FALSE, 13421772, 858993460)
      [] k = 3  -> Num(FALSE, 20132659, 214748364)
      [] k = 4  -> Num(FALSE, 26843545, 644245096)
      [] k = 5  -> Num(FALSE, 33554432, 0)
      [] k = 6  -> Num(FALSE, 40265318, 429496728)
      [] k = 7  -> Num(FALSE, 46976204, 858993456)
      [] k = 8  -> Num(FALSE, 53687091, 214748368)
      [] k = 9  -> Num(FALSE, 60397977, 644245096)
      [] k = 10 -> Num(FALSE, 67108864, 0)

\* The number a JSON/TypeScript literal k/10 denotes (k in -10..10)
Tenth(k) ==
    IF k < 0 THEN [TenthMag(-k) EXCEPT !.neg = TRUE] ELSE TenthMag(k)

IsZero(a) == a.hi = 0 /\ a.lo = 0

MagLess(a, b) == a.hi < b.hi \/ (a.hi = b.hi /\ a.lo < b.lo)

MagAdd(a, b) ==
    LET s == a.lo + b.lo
    IN  IF s >= Limb THEN [hi |-> a.hi + b.hi + 1, lo |-> s - Limb]
                     ELSE [hi |-> a.hi + b.hi, lo |-> s]

\* a - b for magnitudes with b <= a
MagSub(a, b) ==
    IF a.lo >= b.lo THEN [hi |-> a.hi - b.hi, lo |-> a.lo - b.lo]
                    ELSE [hi |-> a.hi - b.hi - 1, lo |-> a.lo + Limb - b.lo]

\* number of low bits a magnitude loses when rounded to 53 significant bits
DropBits(m) ==
    IF m.hi < ExactHi THEN 0
    ELSE IF m.hi < 2 * ExactHi THEN 1
    ELSE IF m.hi < 4 * ExactHi THEN 2
    ELSE IF m.hi < 8 * ExactHi THEN 3
    ELSE IF m.hi < 16 * ExactHi THEN 4
    ELSE 5

\* round-to-nearest, ties-to-even, to 53 significant bits
RoundMag(m) ==
    LET step == 2 ^ DropBits(m)
        q    == m.lo \div step
        rem  == m.lo % step
        up   == (2 * rem > step) \/ (2 * rem = step /\ q % 2 = 1)
        lo2  == (IF up THEN q + 1 ELSE q) * step
    IN  IF step = 1 THEN m
        ELSE IF lo2 = Limb THEN [hi |-> m.hi + 1, lo |-> 0]
        ELSE [hi |-> m.hi, lo |-> lo2]

FNeg(a) == IF IsZero(a) THEN a ELSE [a EXCEPT !.neg = ~a.neg]

\* a + b, correctly rounded
FAdd(a, b) ==
    IF a.neg = b.neg
    THEN LET m == RoundMag(MagAdd(a, b)) IN Num(a.neg, m.hi, m.lo)
    ELSE IF MagLess(a, b)
         THEN LET m == RoundMag(MagSub(b, a)) IN Num(b.neg, m.hi, m.lo)
         ELSE LET m == RoundMag(MagSub(a, b))
              IN  Num(IF IsZero(m) THEN FALSE ELSE a.neg, m.hi, m.lo)

\* the JavaScript expression a - b
FSub(a, b) == FAdd(a, FNeg(b))

\* Math.abs
FAbs(a) == [a EXCEPT !.neg = FALSE]

\* the JavaScript comparison a < b
FLess(a, b) ==
    IF a.neg /\ ~b.neg THEN ~(IsZero(a) /\ IsZero(b))
    ELSE IF ~a.neg /\ b.neg THEN FALSE
    ELSE IF a.neg THEN MagLess(b, a)
    ELSE MagLess(a, b)

FGeq(a, b) == ~FLess(a, b)

FGreater(a, b) == FLess(b, a)

(***************************************************************************)
(* Quarter labels: TrendAnalyzer.parseQuarter                              *)
(***************************************************************************)
Digits == <<"0", "1", "2", "3", "4", "5", "6", "7", "8", "9">>

IsDigit(c) == \E d \in 1..10 : Digits[d] = c

DigitVal(c) == (CHOOSE d \in 1..10 : Digits[d] = c) - 1

\* \s of the regular expression, on the characters the labels use
IsSpace(c) == c = " "

\* first index >= i of s that holds no digit (Len(s) + 1 when the digits run to the end)
RECURSIVE DigitsEnd(_, _)
DigitsEnd(s, i) ==
    IF i > Len(s) \/ ~IsDigit(s[i]) THEN i ELSE DigitsEnd(s, i + 1)

RECURSIVE SpacesEnd(_, _)
SpacesEnd(s, i) ==
    IF i > Len(s) \/ ~IsSpace(s[i]) THEN i ELSE SpacesEnd(s, i + 1)

\* parseInt of the decimal digits s[i..j-1]
RECURSIVE ParseInt(_, _, _)
ParseInt(s, i, j) ==
    IF j <= i THEN 0 ELSE ParseInt(s, i, j - 1) * 10 + DigitVal(s[j - 1])

\* does /Q(\d+)\s+(\d+)/ match s starting at index i
MatchAt(s, i) ==
    /\ i <= Len(s)
    /\ s[i] = "Q"
    /\ LET d1 == DigitsEnd(s, i + 1)
           w  == SpacesEnd(s, d1)
       IN  d1 > i + 1 /\ w > d1 /\ DigitsEnd(s, w) > w

\* quarter.match(/Q(\d+)\s+(\d+)/): the leftmost match, if any; no match throws
parseQuarter(quarter) ==
    IF \E i \in 1..Len(quarter) : MatchAt(quarter, i)
    THEN LET i  == CHOOSE k \in 1..Len(quarter) :
                        MatchAt(quarter, k) /\ \A j \in 1..(k - 1) : ~MatchAt(quarter, j)
             d1 == DigitsEnd(quarter, i + 1)
             w  == SpacesEnd(quarter, d1)
         IN  [ok |-> TRUE, q |-> ParseInt(quarter, i + 1, d1),
              year |-> ParseInt(quarter, w, DigitsEnd(quarter, w))]
    ELSE [ok |-> FALSE, q |-> 0, year |-> 0]

(***************************************************************************)
(* TrendAnalyzer.sortInsightsByQuarter: Array.prototype.sort with a        *)
(* comparator that throws on a label it cannot parse.  The sort is stable, *)
(* calls the comparator only on arrays of two or more elements, and a      *)
(* throw leaves the array as it was.                                       *)
(***************************************************************************)
\* the comparator without its tie-break on the quarter number
CompareYearOnly(a, b) ==
    LET aQuarter == parseQuarter(a.quarter)
        bQuarter == parseQuarter(b.quarter)
    IN  IF ~aQuarter.ok \/ ~bQuarter.ok THEN [ok |-> FALSE, v |-> 0]
        ELSE [ok |-> TRUE, v |-> aQuarter.year - bQuarter.year]

\* the comparator of lines 39-48: [ok, v] with v < 0, = 0, > 0
CompareQuarters(a, b) ==
    LET aQuarter == parseQuarter(a.quarter)
        bQuarter == parseQuarter(b.quarter)
    IN  IF ~aQuarter.ok \/ ~bQuarter.ok THEN [ok |-> FALSE, v |-> 0]
        ELSE IF aQuarter.year # bQuarter.year
             THEN [ok |-> TRUE, v |-> aQuarter.year - bQuarter.year]
             ELSE [ok |-> TRUE, v |-> aQuarter.q - bQuarter.q]

\* insert x into the sorted sequence, after the elements that do not exceed it
RECURSIVE InsertSorted(_, _)
InsertSorted(sorted, x) ==
    IF sorted = <<>> THEN [ok |-> TRUE, list |-> <<x>>]
    ELSE LET last == sorted[Len(sorted)]
             c    == CompareQuarters(last, x)
         IN  IF ~c.ok THEN [ok |-> FALSE, list |-> <<>>]
             ELSE IF c.v > 0
                  THEN LET rest == InsertSorted(SubSeq(sorted, 1, Len(sorted) - 1), x)
                       IN  IF ~rest.ok THEN rest
                           ELSE [ok |-> TRUE, list |-> Append(rest.list, last)]
                  ELSE [ok |-> TRUE, list |-> Append(sorted, x)]

RECURSIVE SortPrefix(_, _)
SortPrefix(list, n) ==
    IF n = 0 THEN [ok |-> TRUE, list |-> <<>>]
    ELSE LET before == SortPrefix(list, n - 1)
         IN  IF ~before.ok THEN before ELSE InsertSorted(before.list, list[n])

sortInsightsByQuarter(list) == SortPrefix(list, Len(list))

(***************************************************************************)
(* TrendAnalyzer: sentiment series, changes, theme evolution, summary      *)
(***************************************************************************)
\* i.managementSentiment?.score || 0
ScoreOf(sentiment) == IF IsZero(sentiment.score) THEN Zero ELSE sentiment.score

\* i.managementSentiment?.sentiment || 'neutral'
SentimentOf(sentiment) ==
    IF sentiment.sentiment = "" THEN "neutral" ELSE sentiment.sentiment

\* i.strategicFocuses?.map(f => f.theme) || []
ThemesOf(insight) ==
    [k \in 1..Len(insight.strategicFocuses) |-> insight.strategicFocuses[k].theme]

SeqToSet(s) == {s[k] : k \in 1..Len(s)}

\* [...new Set(list)]: the distinct elements in first-occurrence order
RECURSIVE Dedupe(_)
Dedupe(list) ==
    IF list = <<>> THEN <<>>
    ELSE LET front == Dedupe(SubSeq(list, 1, Len(list) - 1))
             x     == list[Len(list)]
         IN  IF x \in SeqToSet(front) THEN front ELSE Append(front, x)

\* list.filter(x => keep.has(x)) and list.filter(x => !drop.has(x))
RECURSIVE FilterIn(_, _)
FilterIn(list, keep) ==
    IF list = <<>> THEN <<>>
    ELSE LET rest == FilterIn(Tail(list), keep)
         IN  IF Head(list) \in keep THEN <<Head(list)>> \o rest ELSE rest

FilterNotIn(list, drop) == FilterIn(list, SeqToSet(list) \ drop)

SeriesPoint(quarter, sentiment) ==
    [quarter |-> quarter, score |-> ScoreOf(sentiment), sentiment |-> SentimentOf(sentiment)]

analyzeSentimentTrends(list) ==
    [management |-> [k \in 1..Len(list) |->
                        SeriesPoint(list[k].quarter, list[k].managementSentiment)],
     qa         |-> [k \in 1..Len(list) |->
                        SeriesPoint(list[k].quarter, list[k].qaSentiment)]]

\* sentimentOrder[x] || 1 with sentimentOrder = {negative: 0, neutral: 1, positive: 2}
SentimentOrder(label) ==
    LET v == CASE label = "negative" -> 0
               [] label = "neutral"  -> 1
               [] label = "positive" -> 2
               [] OTHER              -> 0
    IN  IF v = 0 THEN 1 ELSE v

describeSentimentShift(from, to) ==
    IF from = to THEN <<"No change">>
    ELSE IF SentimentOrder(to) > SentimentOrder(from) THEN <<"Improved", from, to>>
    ELSE IF SentimentOrder(to) < SentimentOrder(from) THEN <<"Declined", from, to>>
    ELSE <<"No change">>

getChangeSignificance(scoreDelta) ==
    LET absChange == FAbs(scoreDelta)
    IN  IF FGeq(absChange, Tenth(5)) THEN "major"
        ELSE IF FGeq(absChange, Tenth(2)) THEN "moderate"
        ELSE "minor"

\* the delta taken as previous minus current
SentimentChangeReversed(previous, current) ==
    LET scoreDelta == FSub(ScoreOf(previous), ScoreOf(current))
    IN  [scoreDelta     |-> scoreDelta,
         sentimentShift |-> describeSentimentShift(SentimentOf(previous), SentimentOf(current)),
         significance   |-> getChangeSignificance(scoreDelta)]

SentimentChange(previous, current) ==
    LET scoreDelta == FSub(ScoreOf(current), ScoreOf(previous))
    IN  [scoreDelta     |-> scoreDelta,
         sentimentShift |-> describeSentimentShift(SentimentOf(previous), SentimentOf(current)),
         significance   |-> getChangeSignificance(scoreDelta)]

\* the loop started at i = 0 instead of i = 1
analyzeQuarterChangesFromZero(list) ==
    [k \in 1..Len(list) |->
        [quarter          |-> list[k].quarter,
         managementChange |-> SentimentChange(list[IF k > 1 THEN k - 1 ELSE 1].managementSentiment,
                                              list[k].managementSentiment),
         qaChange         |-> SentimentChange(list[IF k > 1 THEN k - 1 ELSE 1].qaSentiment,
                                              list[k].qaSentiment)]]

\* the loop of lines 77-103: entry k is the change from list[k] to list[k + 1]
analyzeQuarterChanges(list) ==
    [k \in 1..(Len(list) - 1) |->
        [quarter          |-> list[k + 1].quarter,
         managementChange |-> SentimentChange(list[k].managementSentiment,
                                              list[k + 1].managementSentiment),
         qaChange         |-> SentimentChange(list[k].qaSentiment, list[k + 1].qaSentiment)]]

\* emerging and declining computed the wrong way round
ThemeEvolutionSwapped(previousList, hasPrevious, current) ==
    LET currentThemes  == Dedupe(ThemesOf(current))
        previousThemes == Dedupe(previousList)
    IN  [quarter          |-> current.quarter,
         emergingThemes   |-> IF hasPrevious
                              THEN FilterNotIn(previousThemes, SeqToSet(currentThemes))
                              ELSE <<>>,
         decliningThemes  |-> FilterNotIn(currentThemes, SeqToSet(previousThemes)),
         consistentThemes |-> FilterIn(currentThemes, SeqToSet(previousThemes))]

\* one iteration of the loop of lines 130-147; previousList is [] when there is no previous
ThemeEvolution(previousList, hasPrevious, current) ==
    LET currentThemes  == Dedupe(ThemesOf(current))
        previousThemes == Dedupe(previousList)
    IN  [quarter          |-> current.quarter,
         emergingThemes   |-> FilterNotIn(currentThemes, SeqToSet(previousThemes)),
         decliningThemes  |-> IF hasPrevious
                              THEN FilterNotIn(previousThemes, SeqToSet(currentThemes))
                              ELSE <<>>,
         consistentThemes |-> FilterIn(currentThemes, SeqToSet(previousThemes))]

analyzeStrategicEvolution(list) ==
    [k \in 1..Len(list) |->
        IF k > 1 THEN ThemeEvolution(ThemesOf(list[k - 1]), TRUE, list[k])
                 ELSE ThemeEvolution(<<>>, FALSE, list[k])]

calculateOverallTrend(sentimentData) ==
    IF Len(sentimentData) < 2 THEN "stable"
    ELSE LET difference == FSub(sentimentData[Len(sentimentData)].score, sentimentData[1].score)
         IN  IF FGreater(difference, Tenth(2)) THEN "improving"
             ELSE IF FLess(difference, Tenth(-2)) THEN "declining"
             ELSE "stable"

\* strategicEvolution.flatMap(e => e.emergingThemes)
RECURSIVE AllEmerging(_)
AllEmerging(evolution) ==
    IF evolution = <<>> THEN <<>>
    ELSE Head(evolution).emergingThemes \o AllEmerging(Tail(evolution))

Occurrences(list, x) == Cardinality({k \in 1..Len(list) : list[k] = x})

\* the first key, in insertion order, of the highest frequency; null on an empty list
getMostCommonTheme(themes) ==
    IF themes = <<>> THEN [some |-> FALSE, theme |-> ""]
    ELSE LET keys == Dedupe(themes)
             best == CHOOSE k \in 1..Len(keys) :
                        /\ \A j \in 1..Len(keys) :
                              Occurrences(themes, keys[j]) <= Occurrences(themes, keys[k])
                        /\ \A j \in 1..(k - 1) :
                              Occurrences(themes, keys[j]) < Occurrences(themes, keys[k])
         IN  [some |-> TRUE, theme |-> keys[best]]

NoShift == "No significant strategic shifts detected"

NoChanges == <<"No significant changes detected across quarters">>

identifyKeyChanges(sentimentTrend, strategicEvolution) ==
    LET mgmtTrend == calculateOverallTrend(sentimentTrend.management)
        qaTrend   == calculateOverallTrend(sentimentTrend.qa)
        emerging  == AllEmerging(strategicEvolution)
        c1 == IF mgmtTrend = "improving"
              THEN << <<"Management sentiment has improved over time">> >>
              ELSE IF mgmtTrend = "declining"
                   THEN << <<"Management sentiment has declined over time">> >>
                   ELSE <<>>
        c2 == IF qaTrend = "improving"
              THEN << <<"Q&A sentiment has become more positive">> >>
              ELSE IF qaTrend = "declining"
                   THEN << <<"Q&A sentiment has become more negative">> >>
                   ELSE <<>>
        c3 == IF Len(emerging) > 0
              THEN << <<"New strategic focus areas emerged">>
                        \o SubSeq(emerging, 1, IF Len(emerging) < 2 THEN Len(emerging) ELSE 2) >>
              ELSE <<>>
        changes == c1 \o c2 \o c3
    IN  IF Len(changes) > 0 THEN changes ELSE <<NoChanges>>

generateTrendSummary(sentimentTrend, strategicEvolution) ==
    LET common == getMostCommonTheme(AllEmerging(strategicEvolution))
    IN  [managementTrend |-> calculateOverallTrend(sentimentTrend.management),
         qaTrend         |-> calculateOverallTrend(sentimentTrend.qa),
         strategicShift  |-> IF common.some THEN common.theme ELSE NoShift,
         keyChanges      |-> identifyKeyChanges(sentimentTrend, strategicEvolution)]

getEmptyTrendAnalysis(list) ==
    [ok |-> TRUE,
     quarters |-> [k \in 1..Len(list) |-> list[k].quarter],
     sentimentTrend |-> analyzeSentimentTrends(list),
     quarterOverQuarterChanges |-> <<>>,
     strategicEvolution |-> [k \in 1..Len(list) |->
        [quarter          |-> list[k].quarter,
         emergingThemes   |-> <<>>,
         decliningThemes  |-> <<>>,
         consistentThemes |-> ThemesOf(list[k])]],
     overallTrendSummary |->
        [managementTrend |-> "stable",
         qaTrend         |-> "stable",
         strategicShift  |-> "Insufficient data for trend analysis",
         keyChanges      |-> << <<"Need at least 2 quarters for comparison">> >>]]

FullTrendAnalysis(sortedInsights) ==
    LET sentimentTrend     == analyzeSentimentTrends(sortedInsights)
        strategicEvolution == analyzeStrategicEvolution(sortedInsights)
    IN  [ok |-> TRUE,
         quarters |-> [k \in 1..Len(sortedInsights) |-> sortedInsights[k].quarter],
         sentimentTrend |-> sentimentTrend,
         quarterOverQuarterChanges |-> analyzeQuarterChanges(sortedInsights),
         strategicEvolution |-> strategicEvolution,
         overallTrendSummary |-> generateTrendSummary(sentimentTrend, strategicEvolution)]

\* the value thrown by parseQuarter, surfaced to the caller of analyzeQuarterOverQuarter
InvalidQuarterFormat == [ok |-> FALSE, error |-> "Invalid quarter format"]

NoReport == [ok |-> FALSE, error |-> "not called"]

\* the guard of line 11 written as length < 1
TrendResultNoGuard(list) ==
    LET sorted == sortInsightsByQuarter(list)
    IN  IF ~sorted.ok THEN InvalidQuarterFormat
        ELSE IF Len(sorted.list) < 1 THEN getEmptyTrendAnalysis(sorted.list)
        ELSE FullTrendAnalysis(sorted.list)

\* the value analyzeQuarterOverQuarter returns or throws for the array `list`
TrendResult(list) ==
    LET sorted == sortInsightsByQuarter(list)
    IN  IF ~sorted.ok THEN InvalidQuarterFormat
        ELSE IF Len(sorted.list) < 2 THEN getEmptyTrendAnalysis(sorted.list)
        ELSE FullTrendAnalysis(sorted.list)

(***************************************************************************)
(* TrendAnalyzer as a state machine: the caller builds an array, then      *)
(* calls analyzeQuarterOverQuarter, which sorts the array in place.        *)
(***************************************************************************)
TrendInit == insights = <<>> /\ given = <<>> /\ tpc = "input" /\ report = NoReport

AddRecord(r) ==
    /\ tpc = "input"
    /\ Len(insights) < MaxRecords
    /\ insights' = Append(insights, r)
    /\ UNCHANGED <<given, tpc, report>>
    /\ UNCHANGED <<engineVars, collectorVars, storeVars, pipelineVars, splitVars>>

analyzeQuarterOverQuarter ==
    /\ tpc = "input"
    /\ given' = insights
    /\ LET sorted == sortInsightsByQuarter(insights)
       IN  /\ insights' = IF sorted.ok THEN sorted.list ELSE insights
           /\ report' = TrendResult(insights)
    /\ tpc' = "done"
    /\ UNCHANGED <<engineVars, collectorVars, storeVars, pipelineVars, splitVars>>

(***************************************************************************)
(* Inputs of the trend analyzer                                            *)
(***************************************************************************)
Q1of2024 == <<"Q", "1", " ", "2", "0", "2", "4">>

Q2of2024 == <<"Q", "2", " ", "2", "0", "2", "4">>

Q3of2024 == <<"Q", "3", " ", "2", "0", "2", "4">>

Q4of2023 == <<"Q", "4", " ", "2", "0", "2", "3">>

Q7of2024 == <<"Q", "7", " ", "2", "0", "2", "4">>

QuarterOne2024 ==
    <<"Q", "u", "a", "r", "t", "e", "r", " ", "O", "n", "e", " ", "2", "0", "2", "4">>

FiscalQ2of2024 == <<"F", "Y", " ", "Q", "2", " ", "2", "0", "2", "4">>

ValidLabels == {Q1of2024, Q2of2024, Q3of2024, Q4of2023}

Sentiment(label, tenths) == [sentiment |-> label, score |-> Tenth(tenths)]

Focuses(names) == [k \in 1..Len(names) |-> [theme |-> names[k]]]

Insight(id, quarter, mgmt, qa, names) ==
    [transcriptId |-> id, quarter |-> quarter, managementSentiment |-> mgmt,
     qaSentiment |-> qa, strategicFocuses |-> Focuses(names)]

\* records that differ in their labels (well-formed and not)
OrderRecords ==
    {Insight(id, l, Sentiment("neutral", 0), Sentiment("neutral", 0), <<"AI">>) :
        id \in {"a", "b"},
        l \in ValidLabels \cup {Q7of2024, QuarterOne2024, FiscalQ2of2024}}

\* (label, score) pairs of the sentiment grid, in tenths
SentimentGrid ==
    << Sentiment("neutral", 0),   Sentiment("positive", 1), Sentiment("positive", 3),
       Sentiment("positive", 5),  Sentiment("neutral", 7),  Sentiment("positive", 9),
       Sentiment("negative", -5), Sentiment("negative", 3) >>

\* records that differ in their sentiments; the Q&A sentiment is another grid point
DeltaRecords ==
    {Insight("t", l, SentimentGrid[k], SentimentGrid[((k + 2) % Len(SentimentGrid)) + 1], <<>>) :
        l \in {Q1of2024, Q2of2024}, k \in 1..Len(SentimentGrid)}

ThemeLists ==
    { <<>>, <<"AI">>, <<"AI", "Gaming">>, <<"Gaming", "AI", "Gaming">>,
      <<"AI", "Gaming", "DataCenter">>, <<"AI", "DataCenter">>, <<"DataCenter", "Gaming">> }

\* records that differ in their themes
ThemeRecords ==
    {Insight("t", l, Sentiment("neutral", 0), Sentiment("neutral", 0), names) :
        l \in {Q1of2024, Q2of2024}, names \in ThemeLists}

(***************************************************************************)
(* AnalysisEngine: responses of the analysis service and JSON.parse        *)
(***************************************************************************)
MaxDocs == 2

Requests == {"mgmt", "qa", "themes"}

SentimentFields == {"sentiment", "score", "confidence", "keyPhrases", "reasoning"}

\* the value 5.0, outside every documented range
FivePointZero == Num(FALSE, 335544320, 0)

\* a parsed JSON value: null, or an object with the members named in `has`
JsonNull ==
    [type |-> "null", has |-> {}, sentiment |-> "", score |-> Zero, confidence |-> Zero,
     reasoning |-> "", themes |-> <<>>]

SentimentObject(has, label, score, confidence, reasoning) ==
    [type |-> "object", has |-> has, sentiment |-> label, score |-> score,
     confidence |-> confidence, reasoning |-> reasoning, themes |-> <<>>]

ThemesObject(has, themes) ==
    [type |-> "object", has |-> has, sentiment |-> "", score |-> Zero, confidence |-> Zero,
     reasoning |-> "", themes |-> themes]

\* what chat.completions.create did: it rejected, or it returned message content
TransportError == [kind |-> "error", form |-> "", value |-> JsonNull]

Content(form, value) == [kind |-> "content", form |-> form, value |-> value]

\* content that is no JSON text, and absent or empty content (`|| ''`)
Garbage == Content("garbage", JsonNull)

EmptyContent == Content("empty", JsonNull)

Json(value) == Content("json", value)

\* JSON.parse(content): throws unless the content is a JSON text
JsonParse(response) ==
    IF response.form = "json" THEN [ok |-> TRUE, value |-> response.value]
    ELSE [ok |-> FALSE, value |-> JsonNull]

getDefaultSentiment ==
    SentimentObject(SentimentFields, "neutral", Zero, Tenth(5),
                    "Unable to analyze sentiment due to API error")

getDefaultStrategicFocus == << [theme |-> "General Business Operations"] >>

Fulfilled(value) == [state |-> "fulfilled", value |-> value]

Rejected == [state |-> "rejected", value |-> JsonNull]

Pending == [state |-> "pending", value |-> JsonNull]

NotCalled == [state |-> "none", value |-> JsonNull]

\* the sentiment wrapper with the catch block rethrowing
analyzeSentimentRethrows(response) ==
    IF response.kind = "error" THEN Rejected
    ELSE LET parsed == JsonParse(response)
         IN  IF parsed.ok THEN Fulfilled(parsed.value) ELSE Rejected

\* analyzeMgmtSentiment / analyzeQASentiment from the moment the request settles
\* (lines 101-124, 144-167): the parsed content as it is, the default on any throw
analyzeSentiment(response) ==
    IF response.kind = "error" THEN Fulfilled(getDefaultSentiment)
    ELSE LET parsed == JsonParse(response)
         IN  IF parsed.ok THEN Fulfilled(parsed.value) ELSE Fulfilled(getDefaultSentiment)

\* extractStrategicFocus from the moment the request settles (lines 191-215):
\* parsed.themes || [], the default on any throw (reading .themes of null throws)
extractStrategicFocus(response) ==
    IF response.kind = "error" THEN Fulfilled(getDefaultStrategicFocus)
    ELSE LET parsed == JsonParse(response)
         IN  IF ~parsed.ok \/ parsed.value.type = "null"
             THEN Fulfilled(getDefaultStrategicFocus)
             ELSE IF "themes" \in parsed.value.has
                  THEN Fulfilled(parsed.value.themes)
                  ELSE Fulfilled(<<>>)

Settle(request, response) ==
    IF request = "themes" THEN extractStrategicFocus(response) ELSE analyzeSentiment(response)

\* a transcript; `typed` says its text members are strings, as EarningsTranscript declares
Transcript(id, quarter, typed) == [id |-> id, quarter |-> quarter, typed |-> typed]

(***************************************************************************)
(* AnalysisEngine.analyzeTranscript and analyzeMultipleTranscripts         *)
(***************************************************************************)
NoCalls == [r \in Requests |-> NotCalled]

NoResponse == [kind |-> "none", form |-> "", value |-> JsonNull]

NoResponses == [r \in Requests |-> NoResponse]

EngineInit ==
    /\ docs = <<>>
    /\ epc = "input"
    /\ docIdx = 0
    /\ calls = NoCalls
    /\ received = NoResponses
    /\ results = <<>>
    /\ outcomes = <<>>
    /\ elog = <<>>
    /\ wire = <<>>

AddTranscript(d) ==
    /\ epc = "input"
    /\ Len(docs) < MaxDocs
    /\ docs' = Append(docs, d)
    /\ UNCHANGED <<epc, docIdx, calls, received, results, outcomes, elog, wire>>
    /\ UNCHANGED <<trendVars, collectorVars, storeVars, pipelineVars, splitVars>>

\* analyzeMultipleTranscripts is called: the loop starts at the first transcript
analyzeMultipleTranscripts ==
    /\ epc = "input"
    /\ epc' = "loop"
    /\ docIdx' = 1
    /\ UNCHANGED <<docs, calls, received, results, outcomes, elog, wire>>
    /\ UNCHANGED <<trendVars, collectorVars, storeVars, pipelineVars, splitVars>>

\* analyzeTranscript is entered (lines 23-32): the three wrappers are called in turn.
\* Each builds its prompt with text.substring before its try block, so on a transcript
\* whose text is not a string it rejects without issuing a request.
analyzeTranscript ==
    /\ epc = "loop"
    /\ docIdx <= Len(docs)
    /\ epc' = "analyzing"
    /\ calls' = [r \in Requests |-> IF docs[docIdx].typed THEN Pending ELSE Rejected]
    /\ received' = NoResponses
    /\ elog' = Append(elog, <<"start", docIdx>>)
    /\ wire' = IF docs[docIdx].typed
               THEN << <<"request", "mgmt">>, <<"request", "qa">>, <<"request", "themes">> >>
               ELSE <<>>
    /\ UNCHANGED <<docs, docIdx, results, outcomes>>
    /\ UNCHANGED <<trendVars, collectorVars, storeVars, pipelineVars, splitVars>>

\* one request settles and its wrapper resumes
Respond(request, response) ==
    /\ epc = "analyzing"
    /\ calls[request].state = "pending"
    /\ calls' = [calls EXCEPT ![request] = Settle(request, response)]
    /\ received' = [received EXCEPT ![request] = response]
    /\ wire' = Append(wire, <<"response", request>>)
    /\ UNCHANGED <<docs, epc, docIdx, results, outcomes, elog>>
    /\ UNCHANGED <<trendVars, collectorVars, storeVars, pipelineVars, splitVars>>

QuarterlyInsights(transcript, settled) ==
    [transcriptId        |-> transcript.id,
     quarter             |-> transcript.quarter,
     managementSentiment |-> settled["mgmt"].value,
     qaSentiment         |-> settled["qa"].value,
     strategicFocuses    |-> settled["themes"].value]

\* the loop of analyzeMultipleTranscripts without its try/catch: a throw ends the call
PromiseAllSettlesAborts ==
    /\ epc = "analyzing"
    /\ \/ \A r \in Requests : calls[r].state = "fulfilled"
       \/ \E r \in Requests : calls[r].state = "rejected"
    /\ IF \E r \in Requests : calls[r].state = "rejected"
       THEN /\ outcomes' = Append(outcomes, "threw")
            /\ results' = results
            /\ epc' = "done"
            /\ docIdx' = docIdx
       ELSE /\ outcomes' = Append(outcomes, "returned")
            /\ results' = Append(results, QuarterlyInsights(docs[docIdx], calls))
            /\ IF docIdx < Len(docs)
               THEN epc' = "sleeping" /\ docIdx' = docIdx
               ELSE epc' = "loop" /\ docIdx' = docIdx + 1
    /\ UNCHANGED <<docs, calls, received, elog, wire>>
    /\ UNCHANGED <<trendVars, collectorVars, storeVars, pipelineVars, splitVars>>

\* the record assembled as soon as one of the three promises has settled
PromiseAnySettles ==
    /\ epc = "analyzing"
    /\ \E r \in Requests : calls[r].state \in {"fulfilled", "rejected"}
    /\ IF \E r \in Requests : calls[r].state = "rejected"
       THEN /\ outcomes' = Append(outcomes, "threw")
            /\ results' = results
            /\ epc' = "loop"
            /\ docIdx' = docIdx + 1
       ELSE /\ outcomes' = Append(outcomes, "returned")
            /\ results' = Append(results, QuarterlyInsights(docs[docIdx], calls))
            /\ IF docIdx < Len(docs)
               THEN epc' = "sleeping" /\ docIdx' = docIdx
               ELSE epc' = "loop" /\ docIdx' = docIdx + 1
    /\ UNCHANGED <<docs, calls, received, elog, wire>>
    /\ UNCHANGED <<trendVars, collectorVars, storeVars, pipelineVars, splitVars>>

\* Promise.all settles (lines 28-53) and the loop body of analyzeMultipleTranscripts
\* resumes (lines 66-77): a record is pushed and, unless the transcript is the last
\* one, the rate-limit delay starts; a rejection is rethrown, caught and logged.
\* (transcripts.indexOf(transcript) is docIdx: the transcripts are distinct objects)
PromiseAllSettles ==
    /\ epc = "analyzing"
    /\ \/ \A r \in Requests : calls[r].state = "fulfilled"
       \/ \E r \in Requests : calls[r].state = "rejected"
    /\ IF \E r \in Requests : calls[r].state = "rejected"
       THEN /\ outcomes' = Append(outcomes, "threw")
            /\ results' = results
            /\ epc' = "loop"
            /\ docIdx' = docIdx + 1
       ELSE /\ outcomes' = Append(outcomes, "returned")
            /\ results' = Append(results, QuarterlyInsights(docs[docIdx], calls))
            /\ IF docIdx < Len(docs)
               THEN epc' = "sleeping" /\ docIdx' = docIdx
               ELSE epc' = "loop" /\ docIdx' = docIdx + 1
    /\ UNCHANGED <<docs, calls, received, elog, wire>>
    /\ UNCHANGED <<trendVars, collectorVars, storeVars, pipelineVars, splitVars>>

\* sleep(rateLimitDelay) elapses (line 71)
RateLimitElapses ==
    /\ epc = "sleeping"
    /\ epc' = "loop"
    /\ docIdx' = docIdx + 1
    /\ elog' = Append(elog, <<"sleep", docIdx>>)
    /\ UNCHANGED <<docs, calls, received, results, outcomes, wire>>
    /\ UNCHANGED <<trendVars, collectorVars, storeVars, pipelineVars, splitVars>>

\* the loop is over: analyzeMultipleTranscripts returns results (lines 80-81)
ReturnResults ==
    /\ epc = "loop"
    /\ docIdx > Len(docs)
    /\ epc' = "done"
    /\ UNCHANGED <<docs, docIdx, calls, received, results, outcomes, elog, wire>>
    /\ UNCHANGED <<trendVars, collectorVars, storeVars, pipelineVars, splitVars>>

(***************************************************************************)
(* Inputs of the analysis engine                                           *)
(***************************************************************************)
Positive == SentimentObject(SentimentFields, "positive", Tenth(7), Tenth(9), "upbeat")

Negative == SentimentObject(SentimentFields, "negative", Tenth(-5), Tenth(8), "cautious")

\* responses that parse but are not of the shape the prompt asks for
BadLabel == SentimentObject(SentimentFields, "bullish", Tenth(7), Tenth(9), "upbeat")

ScoreOutOfRange == SentimentObject(SentimentFields, "positive", FivePointZero, Tenth(9), "upbeat")

ConfidenceOutOfRange ==
    SentimentObject(SentimentFields, "positive", Tenth(7), FivePointZero, "upbeat")

MissingFields == SentimentObject({"reasoning"}, "", Zero, Zero, "upbeat")

SchemaViolations == {BadLabel, ScoreOutOfRange, ConfidenceOutOfRange, MissingFields, JsonNull}

SentimentResponses ==
    {TransportError, Garbage, EmptyContent, Json(Positive), Json(Negative)}
        \cup {Json(v) : v \in SchemaViolations}

TwoThemes == ThemesObject({"themes"}, << [theme |-> "AI"], [theme |-> "Gaming"] >>)

MissingThemes == ThemesObject({}, <<>>)

ThemeResponses ==
    {TransportError, Garbage, EmptyContent, Json(TwoThemes), Json(MissingThemes), Json(JsonNull)}

ResponsesOf(request) == IF request = "themes" THEN ThemeResponses ELSE SentimentResponses

\* the smaller response sets the batch runs draw from
BatchResponsesOf(request) ==
    IF request = "themes" THEN {TransportError, Json(TwoThemes)}
    ELSE {TransportError, Json(Positive), Json(BadLabel)}

BatchTranscripts ==
    {Transcript("nvda_q1", Q1of2024, TRUE), Transcript("nvda_q2", Q2of2024, TRUE),
     Transcript("nvda_q4", Q4of2023, FALSE)}

(***************************************************************************)
(* TranscriptCollector: identifiers and the sample data                    *)
(***************************************************************************)
MaxQuarters == 5

baseDelay == 2000

maxRetries == 3

\* scrapeTranscript rejects extracted text shorter than this (line 291)
MinContentLength == 500

UpperCase == <<"A", "B", "C", "D", "E", "F", "G", "H", "I", "J", "K", "L", "M",
               "N", "O", "P", "Q", "R", "S", "T", "U", "V", "W", "X", "Y", "Z">>

LowerCase == <<"a", "b", "c", "d", "e", "f", "g", "h", "i", "j", "k", "l", "m",
               "n", "o", "p", "q", "r", "s", "t", "u", "v", "w", "x", "y", "z">>

ToLower(c) ==
    IF \E k \in 1..26 : UpperCase[k] = c
    THEN LowerCase[CHOOSE k \in 1..26 : UpperCase[k] = c]
    ELSE c

IsAlphaNumeric(c) ==
    IsDigit(c) \/ \E k \in 1..26 : UpperCase[k] = c \/ LowerCase[k] = c

\* fileName.replace(/[^a-z0-9]/gi, '_').toLowerCase()
sanitizeFileName(fileName) ==
    [k \in 1..Len(fileName) |->
        IF IsAlphaNumeric(fileName[k]) THEN ToLower(fileName[k]) ELSE "_"]

\* `nvda_${sanitizedQuarter}_${dateStr}`, dateStr the calendar day of `date`
generateTranscriptId(quarter, date) ==
    <<"nvda", sanitizeFileName(quarter), date>>

\* the decimal digits of a small integer, as template literals print it
NumberToChars(n) ==
    IF n < 0 THEN <<"-", Digits[(-n) + 1]>> ELSE <<Digits[n + 1]>>

\* `Q${4 - found} 2024`, the label of a candidate whose title names no quarter
DefaultQuarter(found) == <<"Q">> \o NumberToChars(4 - found) \o <<" ", "2", "0", "2", "4">>

Q4of2024 == <<"Q", "4", " ", "2", "0", "2", "4">>

\* the scenario table (lines 451-476)
scenarios ==
    << [quarter |-> Q4of2024, sentiment |-> "very positive", revenue |-> "$60.9B",
        themes |-> <<"AI Revolution", "Data Center Growth", "Gaming Strength">>],
       [quarter |-> Q3of2024, sentiment |-> "positive", revenue |-> "$35.1B",
        themes |-> <<"AI Demand", "Cloud Computing", "Automotive AI">>],
       [quarter |-> Q2of2024, sentiment |-> "mixed positive", revenue |-> "$30.0B",
        themes |-> <<"Generative AI", "Enterprise Adoption", "Supply Chain">>],
       [quarter |-> Q1of2024, sentiment |-> "cautiously optimistic", revenue |-> "$26.0B",
        themes |-> <<"AI Infrastructure", "Gaming Recovery", "Professional Visualization">>] >>

\* the template of lines 529-541 filled in: the text is determined by these slots
generateEnhancedManagementRemarks(scenario) ==
    <<scenario.sentiment, scenario.quarter, scenario.revenue>> \o scenario.themes

\* new Date(2024, 11 - index * 3, 15) for index 0..3
ScenarioDate(k) ==
    CASE k = 1 -> "2024-12-15"
      [] k = 2 -> "2024-09-15"
      [] k = 3 -> "2024-06-15"
      [] OTHER -> "2024-03-15"

\* quarter.toLowerCase().replace(' ', '-'): the first space only
RECURSIVE ReplaceFirstSpace(_)
ReplaceFirstSpace(s) ==
    IF s = <<>> THEN <<>>
    ELSE IF Head(s) = " " THEN <<"-">> \o Tail(s)
    ELSE <<Head(s)>> \o ReplaceFirstSpace(Tail(s))

SampleUrl(quarter) ==
    [host |-> "investor.nvidia.com",
     path |-> "financial-info/earnings-call-transcripts",
     slug |-> ReplaceFirstSpace([k \in 1..Len(quarter) |-> ToLower(quarter[k])])]

Min(a, b) == IF a < b THEN a ELSE b

\* the scenario table entered at a position that depends on the day of the call
generateSampleDataByDay(count, now) ==
    [k \in 1..Min(count, Len(scenarios)) |->
        LET at == IF now = "2025-01-10" THEN k ELSE (k % Len(scenarios)) + 1
        IN  [id      |-> generateTranscriptId(scenarios[at].quarter, now),
             quarter |-> scenarios[at].quarter,
             date    |-> ScenarioDate(at),
             url     |-> SampleUrl(scenarios[at].quarter),
             managementRemarks |-> generateEnhancedManagementRemarks(scenarios[at])]]

\* scenarios.slice(0, count).map(...) (lines 478-499); `now` is the day of the call
generateRealisticSampleData(count, now) ==
    [k \in 1..Min(count, Len(scenarios)) |->
        [id      |-> generateTranscriptId(scenarios[k].quarter, now),
         quarter |-> scenarios[k].quarter,
         date    |-> ScenarioDate(k),
         url     |-> SampleUrl(scenarios[k].quarter),
         managementRemarks |-> generateEnhancedManagementRemarks(scenarios[k])]]

(***************************************************************************)
(* TranscriptCollector.splitTranscript                                     *)
(***************************************************************************)
MaxChunks == 3

\* the UTF-16 code unit U+0130 (capital I with dot above) and the code unit
\* U+0307 (combining dot above), written by their code points
CapitalIWithDot == "U+0130"

CombiningDot == "U+0307"

\* String.prototype.toLowerCase: A-Z to a-z; U+0130 to the two code units
\* U+0069 U+0307; every other code unit used here is unchanged
RECURSIVE toLowerCase(_)
toLowerCase(s) ==
    IF s = <<>> THEN <<>>
    ELSE (IF Head(s) = CapitalIWithDot THEN <<"i", CombiningDot>> ELSE <<ToLower(Head(s))>>)
         \o toLowerCase(Tail(s))

\* s.indexOf(needle): the least 0-based position of an occurrence, or -1
indexOf(s, needle) ==
    LET at == {i \in 0..(Len(s) - Len(needle)) : SubSeq(s, i + 1, i + Len(needle)) = needle}
    IN  IF at = {} THEN -1 ELSE CHOOSE i \in at : \A j \in at : i <= j

\* s.substring(from, to) for 0 <= from <= to: both indices are clamped to the length
substring(s, from, to) == SubSeq(s, Min(from, Len(s)) + 1, Min(to, Len(s)))

IsWhiteSpace(c) == c \in {" ", "\n"}

RECURSIVE TrimStart(_)
TrimStart(s) ==
    IF s # <<>> /\ IsWhiteSpace(Head(s)) THEN TrimStart(Tail(s)) ELSE s

RECURSIVE TrimEnd(_)
TrimEnd(s) ==
    IF s # <<>> /\ IsWhiteSpace(s[Len(s)]) THEN TrimEnd(SubSeq(s, 1, Len(s) - 1)) ELSE s

\* String.prototype.trim
trim(s) == TrimEnd(TrimStart(s))

\* the marker list of lines 393-399
qaMarkers ==
    << <<"Q", "u", "e", "s", "t", "i", "o", "n", "-", "a", "n", "d", "-", "A", "n", "s", "w", "e", "r", " ", "S", "e", "s", "s", "i", "o", "n">>,
       <<"Q", "u", "e", "s", "t", "i", "o", "n", "s", " ", "a", "n", "d", " ", "A", "n", "s", "w", "e", "r", "s">>,
       <<"Q", "&", "A", " ", "S", "e", "s", "s", "i", "o", "n">>,
       <<"O", "p", "e", "r", "a", "t", "o", "r", ":">>,
       <<"Q", "u", "e", "s", "t", "i", "o", "n", "s", " ", "&", " ", "A", "n", "s", "w", "e", "r", "s">> >>

\* Math.floor(length * 0.6).  For every length below 2^50 the binary64 product
\* length * 0.6 lies within 1/10 of 3 * length / 5 and rounds to it when that is
\* an integer, so the floor is the integer quotient.
SplitPoint(length) == (3 * length) \div 5

SplitAt(transcript, index) ==
    [managementRemarks |-> trim(substring(transcript, 0, index)),
     qaSection         |-> trim(substring(transcript, index, Len(transcript))),
     called            |-> TRUE]

\* the loop of lines 401-409 from marker k on, then the fixed-ratio split
RECURSIVE SplitFrom(_, _)
SplitFrom(transcript, k) ==
    IF k > Len(qaMarkers) THEN SplitAt(transcript, SplitPoint(Len(transcript)))
    ELSE LET index == indexOf(toLowerCase(transcript), toLowerCase(qaMarkers[k]))
         IN  IF index # -1 THEN SplitAt(transcript, index)
             ELSE SplitFrom(transcript, k + 1)

\* splitTranscript(text) is called and returns
splitTranscript ==
    /\ ~parts.called
    /\ parts' = SplitFrom(text, 1)
    /\ UNCHANGED text
    /\ UNCHANGED <<trendVars, engineVars, collectorVars, storeVars, pipelineVars>>

\* pieces of transcript text: markers in several spellings, words, white space
Chunks ==
    { <<"O", "p", "e", "r", "a", "t", "o", "r", ":">>,
      <<"O", "P", "E", "R", "A", "T", "O", "R", ":">>,
      <<"Q", "&", "A", " ", "S", "e", "s", "s", "i", "o", "n">>,
      <<"H", "i">>,
      <<" ">>,
      <<CapitalIWithDot>> }

RECURSIVE TextsOf(_)
TextsOf(n) ==
    IF n = 0 THEN {<<>>}
    ELSE LET shorter == TextsOf(n - 1)
         IN  shorter \cup {t \o c : t \in shorter, c \in Chunks}

\* the texts made of at most MaxChunks pieces
Texts == TextsOf(MaxChunks)

(***************************************************************************)
(* TranscriptCollector.collectNvidiaTranscripts                            *)
(***************************************************************************)
Sources == <<"Seeking Alpha", "Yahoo Finance", "Motley Fool">>

SourceHost(source) ==
    IF source = "Seeking Alpha" THEN "seekingalpha.com" ELSE "finance.yahoo.com"

\* href.startsWith('http') ? href : `https://<source host>${href}` (lines 131, 209):
\* a relative link is an article of the source; an absolute link is kept as it is,
\* here one to the investor-relations transcript page of the quarter
FullUrl(source, absolute, quarter) ==
    IF absolute THEN SampleUrl(quarter)
    ELSE [host |-> SourceHost(source), path |-> "article", slug |-> <<>>]

\* the candidates one search returns: `found` links, the k-th labelled from its title
\* when the titles name a quarter and `Q${4 - (k-1)} 2024` otherwise (lines 125-145)
Candidates(source, found, titled, absolute, now) ==
    [k \in 1..found |->
        [url     |-> FullUrl(source, absolute,
                             IF titled THEN Q2of2024 ELSE DefaultQuarter(k - 1)),
         quarter |-> IF titled THEN Q2of2024 ELSE DefaultQuarter(k - 1),
         date    |-> now,
         source  |-> source]]

CollectorInit ==
    /\ apc = "idle"
    /\ quarters = 0
    /\ today = ""
    /\ srcIdx = 0
    /\ urls = <<>>
    /\ candIdx = 0
    /\ retries = 0
    /\ waits = <<>>
    /\ transcripts = <<>>
    /\ acquired = <<>>

\* collectNvidiaTranscripts(n) is called on the day `now`
collectNvidiaTranscripts(n, now) ==
    /\ apc = "idle"
    /\ apc' = "search"
    /\ quarters' = n
    /\ today' = now
    /\ srcIdx' = 1
    /\ UNCHANGED <<urls, candIdx, retries, waits, transcripts, acquired>>
    /\ UNCHANGED <<trendVars, engineVars, storeVars, pipelineVars, splitVars>>

\* the loop of findNvidiaTranscriptUrls returning results without slice(0, quarters)
SearchSourceUncapped(found, titled, absolute) ==
    /\ apc = "search"
    /\ found <= quarters
    /\ Sources[srcIdx] = "Motley Fool" => found = 0
    /\ LET all    == urls \o Candidates(Sources[srcIdx], found, titled, absolute, today)
           over   == Len(all) >= quarters \/ srcIdx = Len(Sources)
           capped == all
       IN  IF ~over
           THEN /\ urls' = all
                /\ srcIdx' = srcIdx + 1
                /\ UNCHANGED <<apc, candIdx, acquired>>
           ELSE /\ urls' = capped
                /\ srcIdx' = srcIdx
                /\ IF capped = <<>>
                   THEN /\ apc' = "done"
                        /\ acquired' = generateRealisticSampleData(quarters, today)
                        /\ candIdx' = candIdx
                   ELSE /\ apc' = "scrape"
                        /\ candIdx' = 1
                        /\ acquired' = acquired
    /\ UNCHANGED <<quarters, today, retries, waits, transcripts>>
    /\ UNCHANGED <<trendVars, engineVars, storeVars, pipelineVars, splitVars>>

\* One iteration of the loop of findNvidiaTranscriptUrls (lines 78-91): the source
\* returns `found` candidates (none when its request fails, none ever from Motley
\* Fool); the loop ends when enough were found or the sources are exhausted, the
\* list is capped (line 93), and with no candidate at all collectNvidiaTranscripts
\* returns the sample data (lines 19-22).  The one-second pause between sources
\* is part of the step.
SearchSource(found, titled, absolute) ==
    /\ apc = "search"
    /\ found <= quarters
    /\ Sources[srcIdx] = "Motley Fool" => found = 0
    /\ LET all    == urls \o Candidates(Sources[srcIdx], found, titled, absolute, today)
           over   == Len(all) >= quarters \/ srcIdx = Len(Sources)
           capped == SubSeq(all, 1, Min(Len(all), quarters))
       IN  IF ~over
           THEN /\ urls' = all
                /\ srcIdx' = srcIdx + 1
                /\ UNCHANGED <<apc, candIdx, acquired>>
           ELSE /\ urls' = capped
                /\ srcIdx' = srcIdx
                /\ IF capped = <<>>
                   THEN /\ apc' = "done"
                        /\ acquired' = generateRealisticSampleData(quarters, today)
                        /\ candIdx' = candIdx
                   ELSE /\ apc' = "scrape"
                        /\ candIdx' = 1
                        /\ acquired' = acquired
    /\ UNCHANGED <<quarters, today, retries, waits, transcripts>>
    /\ UNCHANGED <<trendVars, engineVars, storeVars, pipelineVars, splitVars>>

ScrapedTranscript(urlInfo) ==
    [id      |-> generateTranscriptId(urlInfo.quarter, urlInfo.date),
     quarter |-> urlInfo.quarter,
     date    |-> urlInfo.date,
     url     |-> urlInfo.url,
     managementRemarks |-> <<"page text">>]

\* an attempt whose backoff is the base delay after every failure
FetchAttemptFlatBackoff(page) ==
    /\ apc = "scrape"
    /\ IF page.kind = "text" /\ ~(page.length < MinContentLength)
       THEN /\ transcripts' = Append(transcripts, ScrapedTranscript(urls[candIdx]))
            /\ apc' = "pause"
            /\ UNCHANGED <<retries, waits>>
       ELSE /\ retries' = retries + 1
            /\ transcripts' = transcripts
            /\ IF retries + 1 < maxRetries
               THEN /\ apc' = "backoff"
                    /\ waits' = Append(waits, baseDelay)
               ELSE /\ apc' = "pause"
                    /\ waits' = waits
    /\ UNCHANGED <<quarters, today, srcIdx, urls, candIdx, acquired>>
    /\ UNCHANGED <<trendVars, engineVars, storeVars, pipelineVars, splitVars>>

\* One attempt of scrapeTranscript's loop (lines 266-321).  `page` is what the GET
\* and the extractor gave: a transport error, or text of some length.
FetchAttempt(page) ==
    /\ apc = "scrape"
    /\ IF page.kind = "text" /\ ~(page.length < MinContentLength)
       THEN /\ transcripts' = Append(transcripts, ScrapedTranscript(urls[candIdx]))
            /\ apc' = "pause"
            /\ UNCHANGED <<retries, waits>>
       ELSE /\ retries' = retries + 1
            /\ transcripts' = transcripts
            /\ IF retries + 1 < maxRetries
               THEN /\ apc' = "backoff"
                    /\ waits' = Append(waits, baseDelay * (retries + 1))
               ELSE /\ apc' = "pause"
                    /\ waits' = waits
    /\ UNCHANGED <<quarters, today, srcIdx, urls, candIdx, acquired>>
    /\ UNCHANGED <<trendVars, engineVars, storeVars, pipelineVars, splitVars>>

\* sleep(baseDelay * retries) elapses (line 318)
BackoffElapses ==
    /\ apc = "backoff"
    /\ apc' = "scrape"
    /\ UNCHANGED <<quarters, today, srcIdx, urls, candIdx, retries, waits, transcripts, acquired>>
    /\ UNCHANGED <<trendVars, engineVars, storeVars, pipelineVars, splitVars>>

\* the fallback taken whenever some candidate gave no transcript
PauseElapsesNeedsAll ==
    /\ apc = "pause"
    /\ retries' = 0
    /\ waits' = <<>>
    /\ IF candIdx < Len(urls)
       THEN /\ apc' = "scrape"
            /\ candIdx' = candIdx + 1
            /\ acquired' = acquired
       ELSE /\ apc' = "done"
            /\ candIdx' = candIdx
            /\ acquired' = IF Len(transcripts) < Len(urls)
                           THEN generateRealisticSampleData(quarters, today)
                           ELSE transcripts
    /\ UNCHANGED <<quarters, today, srcIdx, urls, transcripts>>
    /\ UNCHANGED <<trendVars, engineVars, storeVars, pipelineVars, splitVars>>

\* sleep(baseDelay) after a candidate elapses (line 38); after the last candidate
\* collectNvidiaTranscripts returns (lines 44-50)
PauseElapses ==
    /\ apc = "pause"
    /\ retries' = 0
    /\ waits' = <<>>
    /\ IF candIdx < Len(urls)
       THEN /\ apc' = "scrape"
            /\ candIdx' = candIdx + 1
            /\ acquired' = acquired
       ELSE /\ apc' = "done"
            /\ candIdx' = candIdx
            /\ acquired' = IF Len(transcripts) = 0
                           THEN generateRealisticSampleData(quarters, today)
                           ELSE transcripts
    /\ UNCHANGED <<quarters, today, srcIdx, urls, transcripts>>
    /\ UNCHANGED <<trendVars, engineVars, storeVars, pipelineVars, splitVars>>

\* what one GET and extraction can give
Pages ==
    {[kind |-> "error", length |-> 0], [kind |-> "text", length |-> 0],
     [kind |-> "text", length |-> 499], [kind |-> "text", length |-> 500],
     [kind |-> "text", length |-> 1200]}

Days == {"2025-01-10", "2025-01-11"}

(***************************************************************************)
(* POST /api/analyze, step 1: collect, then save into the in-memory store  *)
(***************************************************************************)
MaxRuns == 2

StoreInit == dbTranscripts = <<>> /\ returned = <<>> /\ dbInsights = <<>> /\ puts = <<>>

\* a map that keeps the value it already holds for the id
saveTranscriptKeepsFirst(map, transcript) == map @@ (transcript.id :> transcript)

\* this.transcripts.set(transcript.id, transcript)
saveTranscript(map, transcript) == (transcript.id :> transcript) @@ map

\* this.insights.set(insights.transcriptId, insights)
saveInsights(map, record) == (record.transcriptId :> record) @@ map

\* Array.from(map.values()): one value per key
getAllTranscripts(map) == {map[id] : id \in DOMAIN map}

getAllInsights(map) == {map[id] : id \in DOMAIN map}

\* { transcripts: this.transcripts.size, insights: this.insights.size }
getStats ==
    [transcripts |-> Cardinality(DOMAIN dbTranscripts),
     insights    |-> Cardinality(DOMAIN dbInsights)]

\* for (const transcript of transcripts) await db.saveTranscript(transcript)
RECURSIVE saveAll(_, _)
saveAll(map, list) ==
    IF list = <<>> THEN map
    ELSE saveAll(saveTranscript(map, Head(list)), Tail(list))

\* POST lines 16-27: the collector has returned, every transcript is saved; the
\* next request starts with a new collector
saveTranscripts ==
    /\ apc = "done"
    /\ Len(returned) < MaxRuns
    /\ Len(acquired) # 0
    /\ dbTranscripts' = saveAll(dbTranscripts, acquired)
    /\ returned' = Append(returned, [quarters  |-> quarters,
                                     scraped   |-> Len(transcripts),
                                     documents |-> acquired])
    /\ apc' = "idle"
    /\ quarters' = 0
    /\ today' = ""
    /\ srcIdx' = 0
    /\ urls' = <<>>
    /\ candIdx' = 0
    /\ retries' = 0
    /\ waits' = <<>>
    /\ transcripts' = <<>>
    /\ acquired' = <<>>
    /\ UNCHANGED <<dbInsights, puts>>
    /\ UNCHANGED <<trendVars, engineVars, pipelineVars, splitVars>>

(***************************************************************************)
(* InMemoryDatabase used directly: any sequence of save calls               *)
(***************************************************************************)
MaxPuts == 4

\* the POST requests in flight at the same time
Runs == {"first", "second"}

\* splitTranscript has not returned
NoParts == [managementRemarks |-> <<>>, qaSection |-> <<>>, called |-> FALSE]

\* db.saveTranscript(t) is called
PutTranscript(t) ==
    /\ Len(puts) < MaxPuts
    /\ dbTranscripts' = saveTranscript(dbTranscripts, t)
    /\ puts' = Append(puts, [store |-> "transcripts", value |-> t])
    /\ UNCHANGED <<returned, dbInsights>>
    /\ UNCHANGED <<trendVars, engineVars, collectorVars, pipelineVars, splitVars>>

\* db.saveInsights(i) is called
PutInsights(i) ==
    /\ Len(puts) < MaxPuts
    /\ dbInsights' = saveInsights(dbInsights, i)
    /\ puts' = Append(puts, [store |-> "insights", value |-> i])
    /\ UNCHANGED <<returned, dbTranscripts>>
    /\ UNCHANGED <<trendVars, engineVars, collectorVars, pipelineVars, splitVars>>

\* transcripts of two ids, each id with two different contents
StoreTranscripts ==
    {[id      |-> generateTranscriptId(q, "2025-01-10"),
      quarter |-> q,
      date    |-> "2025-01-10",
      url     |-> FullUrl(source, FALSE, q),
      managementRemarks |-> <<"page text">>] :
        q \in {Q1of2024, Q2of2024}, source \in {"Seeking Alpha", "Yahoo Finance"}}

\* insights of two transcript ids, each id with two different contents
StoreInsights ==
    {Insight(id, Q1of2024, Sentiment(label, 0), Sentiment("neutral", 0), <<"AI">>) :
        id \in {"nvda_q1", "nvda_q2"}, label \in {"neutral", "positive"}}

\* the requests of the rerun specification ask for one or two quarters
RerunCounts == 1..Min(2, MaxQuarters)

(***************************************************************************)
(* POST /api/analyze with reanalyze = false, steps 1 to 3, for requests    *)
(* that run at the same time on the shared store                           *)
(***************************************************************************)
\* a sequence holding the elements of a set, one each
SetToSeq(S) ==
    CHOOSE f \in [1..Cardinality(S) -> S] : \A x \in S : \E k \in 1..Cardinality(S) : f[k] = x

\* transcripts.filter(t => !analyzedTranscriptIds.has(t.id))
RECURSIVE FilterNotAnalyzed(_, _)
FilterNotAnalyzed(list, ids) ==
    IF list = <<>> THEN <<>>
    ELSE LET rest == FilterNotAnalyzed(Tail(list), ids)
         IN  IF Head(list).id \in ids THEN rest ELSE <<Head(list)>> \o rest

\* what analyzeMultipleTranscripts returns for `list` to the request `run`: a record
\* for every transcript whose analysis returned, in order
RECURSIVE NewInsights(_, _)
NewInsights(list, run) ==
    IF list = <<>> THEN <<>>
    ELSE LET rest == NewInsights(Tail(list), run)
         IN  IF Head(list).typed
             THEN <<[transcriptId |-> Head(list).id, quarter |-> Head(list).quarter,
                     generatedAt |-> run]>> \o rest
             ELSE rest

RECURSIVE saveAllInsights(_, _)
saveAllInsights(map, list) ==
    IF list = <<>> THEN map
    ELSE saveAllInsights(saveInsights(map, Head(list)), Tail(list))

\* a request arrives; the collector returns `list`, which is saved (lines 10-27)
PostCollect(run, list) ==
    /\ ppc[run] = "idle"
    /\ ppc' = [ppc EXCEPT ![run] = "check"]
    /\ held' = [held EXCEPT ![run] = list]
    /\ dbTranscripts' = saveAll(dbTranscripts, list)
    /\ UNCHANGED <<need, allInsights, analyses, returned, dbInsights, puts>>
    /\ UNCHANGED <<trendVars, engineVars, collectorVars, splitVars>>

\* lines 40-52: the stored insights are read, the transcripts without a stored
\* record are picked and handed to analyzeMultipleTranscripts, which is awaited
PostCheck(run) ==
    /\ ppc[run] = "check"
    /\ LET existingInsights      == SetToSeq(getAllInsights(dbInsights))
           analyzedTranscriptIds == {existingInsights[k].transcriptId :
                                        k \in 1..Len(existingInsights)}
           needAnalysis          == FilterNotAnalyzed(held[run], analyzedTranscriptIds)
       IN  /\ need' = [need EXCEPT ![run] = needAnalysis]
           /\ allInsights' = [allInsights EXCEPT ![run] = existingInsights]
           /\ analyses' = analyses \o [k \in 1..Len(needAnalysis) |-> needAnalysis[k].id]
           /\ ppc' = [ppc EXCEPT ![run] = IF Len(needAnalysis) > 0 THEN "analyze" ELSE "save"]
    /\ UNCHANGED <<held, storeVars>>
    /\ UNCHANGED <<trendVars, engineVars, collectorVars, splitVars>>

\* lines 47-48: analyzeMultipleTranscripts has returned
PostAnalyzed(run) ==
    /\ ppc[run] = "analyze"
    /\ allInsights' = [allInsights EXCEPT ![run] = @ \o NewInsights(need[run], run)]
    /\ ppc' = [ppc EXCEPT ![run] = "save"]
    /\ UNCHANGED <<held, need, analyses, storeVars>>
    /\ UNCHANGED <<trendVars, engineVars, collectorVars, splitVars>>

\* lines 55-59: every element of allInsights is saved
PostSave(run) ==
    /\ ppc[run] = "save"
    /\ dbInsights' = saveAllInsights(dbInsights, allInsights[run])
    /\ ppc' = [ppc EXCEPT ![run] = "done"]
    /\ UNCHANGED <<held, need, allInsights, analyses, dbTranscripts, returned, puts>>
    /\ UNCHANGED <<trendVars, engineVars, collectorVars, splitVars>>

\* what the collector can return to a request
PipelineTranscripts ==
    { <<Transcript("nvda_q1", Q1of2024, TRUE)>>,
      <<Transcript("nvda_q1", Q1of2024, TRUE), Transcript("nvda_q2", Q2of2024, TRUE)>>,
      <<Transcript("nvda_q2", Q2of2024, TRUE), Transcript("nvda_q4", Q4of2023, FALSE)>> }

(***************************************************************************)
(* Specifications                                                          *)
(***************************************************************************)
PipelineInit ==
    /\ ppc = [run \in Runs |-> "idle"]
    /\ held = [run \in Runs |-> <<>>]
    /\ need = [run \in Runs |-> <<>>]
    /\ allInsights = [run \in Runs |-> <<>>]
    /\ analyses = <<>>

SplitInit == text = <<>> /\ parts = NoParts

Init == TrendInit /\ EngineInit /\ CollectorInit /\ StoreInit /\ PipelineInit /\ SplitInit

\* TrendAnalyzer over labels
Next ==
    \/ \E r \in OrderRecords : AddRecord(r)
    \/ analyzeQuarterOverQuarter

Spec == Init /\ [][Next]_vars

\* TrendAnalyzer over sentiments
NextDelta ==
    \/ \E r \in DeltaRecords : AddRecord(r)
    \/ analyzeQuarterOverQuarter

SpecDelta == Init /\ [][NextDelta]_vars

\* TrendAnalyzer over themes
NextTheme ==
    \/ \E r \in ThemeRecords : AddRecord(r)
    \/ analyzeQuarterOverQuarter

SpecTheme == Init /\ [][NextTheme]_vars

\* AnalysisEngine.analyzeTranscript on one well-typed transcript, every response
InitExtract ==
    /\ TrendInit
    /\ CollectorInit
    /\ StoreInit
    /\ PipelineInit
    /\ SplitInit
    /\ docs \in {<<Transcript("nvda_q1", Q1of2024, TRUE)>>, <<Transcript("nvda_q2", Q2of2024, TRUE)>>}
    /\ epc = "loop"
    /\ docIdx = 1
    /\ calls = NoCalls
    /\ received = NoResponses
    /\ results = <<>>
    /\ outcomes = <<>>
    /\ elog = <<>>
    /\ wire = <<>>

NextExtract ==
    \/ analyzeTranscript
    \/ \E request \in Requests : \E response \in ResponsesOf(request) : Respond(request, response)
    \/ PromiseAllSettles
    \/ ReturnResults

SpecExtract == InitExtract /\ [][NextExtract]_vars

\* AnalysisEngine.analyzeMultipleTranscripts on up to MaxDocs transcripts
NextBatch ==
    \/ \E d \in BatchTranscripts : AddTranscript(d)
    \/ analyzeMultipleTranscripts
    \/ analyzeTranscript
    \/ \E request \in Requests :
          \E response \in BatchResponsesOf(request) : Respond(request, response)
    \/ PromiseAllSettles
    \/ RateLimitElapses
    \/ ReturnResults

SpecBatch == Init /\ [][NextBatch]_vars

\* TranscriptCollector.collectNvidiaTranscripts for 1..MaxQuarters quarters
NextAcquire ==
    \/ \E n \in 1..MaxQuarters : \E now \in Days : collectNvidiaTranscripts(n, now)
    \/ \E found \in 0..MaxQuarters : \E titled, absolute \in BOOLEAN :
          SearchSource(found, titled, absolute)
    \/ \E page \in Pages : FetchAttempt(page)
    \/ BackoffElapses
    \/ PauseElapses

SpecAcquire == Init /\ [][NextAcquire]_vars

\* up to MaxRuns requests, each collecting and saving; every source lists at most
\* one link per search, a relative one, and a page is either an error or long enough
NextRerun ==
    \/ \E n \in RerunCounts : \E now \in Days : collectNvidiaTranscripts(n, now)
    \/ \E found \in 0..1 : SearchSource(found, TRUE, FALSE)
    \/ \E page \in {[kind |-> "error", length |-> 0], [kind |-> "text", length |-> 1200]} :
          FetchAttempt(page)
    \/ BackoffElapses
    \/ PauseElapses
    \/ saveTranscripts

SpecRerun == Init /\ [][NextRerun]_vars

\* InMemoryDatabase under up to MaxPuts save calls
NextStore ==
    \/ \E t \in StoreTranscripts : PutTranscript(t)
    \/ \E i \in StoreInsights : PutInsights(i)

SpecStore == Init /\ [][NextStore]_vars

\* the POST requests of Runs, in any interleaving of their steps
NextPipeline ==
    \/ \E run \in Runs : \E list \in PipelineTranscripts : PostCollect(run, list)
    \/ \E run \in Runs : PostCheck(run)
    \/ \E run \in Runs : PostAnalyzed(run)
    \/ \E run \in Runs : PostSave(run)

SpecPipeline == Init /\ [][NextPipeline]_vars

\* splitTranscript applied to one text
InitSplit ==
    /\ TrendInit
    /\ EngineInit
    /\ CollectorInit
    /\ StoreInit
    /\ PipelineInit
    /\ text \in Texts
    /\ parts = NoParts

NextSplit == splitTranscript

SpecSplit == InitSplit /\ [][NextSplit]_vars

(***************************************************************************)
(* Properties of the trend analyzer                                        *)
(***************************************************************************)
QuarterLabels(list) == [k \in 1..Len(list) |-> list[k].quarter]

\* a label of the documented form Q<1-4> <four-digit year>
IsValidLabel(l) ==
    /\ Len(l) = 7
    /\ l[1] = "Q"
    /\ l[2] \in {"1", "2", "3", "4"}
    /\ l[3] = " "
    /\ \A k \in 4..7 : IsDigit(l[k])

\* the chronological rank of a valid label, read off its fixed positions
LabelRank(l) ==
    4 * (1000 * DigitVal(l[4]) + 100 * DigitVal(l[5]) + 10 * DigitVal(l[6]) + DigitVal(l[7]))
      + DigitVal(l[2])

IsPermutation(a, b) ==
    /\ Len(a) = Len(b)
    /\ \A x \in SeqToSet(a) \cup SeqToSet(b) : Occurrences(a, x) = Occurrences(b, x)

AllValid(list) == \A k \in 1..Len(list) : IsValidLabel(list[k].quarter)

\* C5: for every input whose labels are all valid, the report's quarters are a
\* permutation of the input labels, non-decreasing in (year, quarterNumber).
C5_QuartersSortedPermutation ==
    (tpc = "done" /\ AllValid(given)) =>
        /\ report.ok
        /\ IsPermutation(report.quarters, QuarterLabels(given))
        /\ \A k \in 1..(Len(report.quarters) - 1) :
              LabelRank(report.quarters[k]) <= LabelRank(report.quarters[k + 1])

\* three valid labels that analyzeQuarterOverQuarter had to reorder
C5_Witness ==
    /\ tpc = "done"
    /\ AllValid(given)
    /\ Len(given) = 3
    /\ report.ok
    /\ report.quarters # QuarterLabels(given)

\* C6: every report has one management point and one Q&A point per quarter and
\* max(0, quarters - 1) quarter-over-quarter changes, inputs of 0 and 1 records included.
C6_ReportLengths ==
    (tpc = "done" /\ report.ok) =>
        /\ Len(report.quarters) = Len(given)
        /\ Len(report.sentimentTrend.management) = Len(report.quarters)
        /\ Len(report.sentimentTrend.qa) = Len(report.quarters)
        /\ Len(report.quarterOverQuarterChanges) =
              (IF Len(report.quarters) = 0 THEN 0 ELSE Len(report.quarters) - 1)

C6_Witness ==
    /\ tpc = "done"
    /\ report.ok
    /\ Len(report.quarters) = 3
    /\ Len(report.quarterOverQuarterChanges) = 2

HasUnparsableLabel(list) == \E k \in 1..Len(list) : ~parseQuarter(list[k].quarter).ok

\* C7 as stated: any input holding a label that does not parse makes
\* analyzeQuarterOverQuarter fail, whatever the input size.
C7_MalformedAlwaysFails ==
    (tpc = "done" /\ HasUnparsableLabel(given)) => ~report.ok

EvolutionListsEmpty(evolution) ==
    \A k \in 1..Len(evolution) :
        evolution[k].emergingThemes = <<>> /\ evolution[k].decliningThemes = <<>>

\* C8 as stated: on 0 or 1 records the call returns a report whose change list and
\* theme-evolution list are both empty and whose trends are both "stable".
C8_DegenerateAllEmpty ==
    (tpc = "done" /\ Len(given) <= 1) =>
        /\ report.ok
        /\ report.quarterOverQuarterChanges = <<>>
        /\ report.strategicEvolution = <<>>
        /\ report.overallTrendSummary.managementTrend = "stable"
        /\ report.overallTrendSummary.qaTrend = "stable"

\* C8 amended: on 0 or 1 records the call never fails and returns a report whose
\* change list is empty, whose theme-evolution list has one entry per input record
\* with empty emerging and declining lists, and whose trends are both "stable".
C8_DegenerateReport ==
    (tpc = "done" /\ Len(given) <= 1) =>
        /\ report.ok
        /\ report.quarterOverQuarterChanges = <<>>
        /\ Len(report.strategicEvolution) = Len(given)
        /\ EvolutionListsEmpty(report.strategicEvolution)
        /\ report.overallTrendSummary.managementTrend = "stable"
        /\ report.overallTrendSummary.qaTrend = "stable"

\* a single record, carrying a theme, has been analyzed
C8_Witness ==
    /\ tpc = "done"
    /\ Len(given) = 1
    /\ report.ok
    /\ Len(report.strategicEvolution) = 1
    /\ report.strategicEvolution[1].consistentThemes # <<>>

\* the grid index k of the score k/10
TenthOf(x) == CHOOSE k \in -10..10 : Tenth(k) = x

AbsInt(n) == IF n < 0 THEN -n ELSE n

\* the documented tier of a score delta of d tenths
TierOfTenths(d) ==
    IF AbsInt(d) >= 5 THEN "major" ELSE IF AbsInt(d) >= 2 THEN "moderate" ELSE "minor"

\* C9 as stated: the tier of every Change is the documented tier of the decimal
\* difference of the two scores (0.1 then 0.3 is a delta of 0.2, hence moderate).
C9_TierOfDecimalDelta ==
    (tpc = "done" /\ report.ok) =>
        \A k \in 1..Len(report.quarterOverQuarterChanges) :
            /\ report.quarterOverQuarterChanges[k].managementChange.significance =
                  TierOfTenths(TenthOf(ScoreOf(insights[k + 1].managementSentiment))
                               - TenthOf(ScoreOf(insights[k].managementSentiment)))
            /\ report.quarterOverQuarterChanges[k].qaChange.significance =
                  TierOfTenths(TenthOf(ScoreOf(insights[k + 1].qaSentiment))
                               - TenthOf(ScoreOf(insights[k].qaSentiment)))

ThemeSet(insight) == {insight.strategicFocuses[k].theme : k \in 1..Len(insight.strategicFocuses)}

\* C10: at every transition of the sorted records, emerging = current - previous,
\* declining = previous - current and consistent = current /\ previous as sets,
\* so emerging and declining are disjoint and consistent with emerging is current.
C10_ThemeSetAlgebra ==
    (tpc = "done" /\ report.ok /\ Len(insights) >= 2) =>
        \A k \in 2..Len(insights) :
            LET current  == ThemeSet(insights[k])
                previous == ThemeSet(insights[k - 1])
                e        == report.strategicEvolution[k]
            IN  /\ SeqToSet(e.emergingThemes) = current \ previous
                /\ SeqToSet(e.decliningThemes) = previous \ current
                /\ SeqToSet(e.consistentThemes) = current \cap previous
                /\ SeqToSet(e.emergingThemes) \cap SeqToSet(e.decliningThemes) = {}
                /\ SeqToSet(e.consistentThemes) \cup SeqToSet(e.emergingThemes) = current

\* a transition at which a theme emerges, one declines and one stays
C10_Witness ==
    /\ tpc = "done"
    /\ report.ok
    /\ \E k \in 2..Len(report.strategicEvolution) :
          /\ report.strategicEvolution[k].emergingThemes # <<>>
          /\ report.strategicEvolution[k].decliningThemes # <<>>
          /\ report.strategicEvolution[k].consistentThemes # <<>>

(***************************************************************************)
(* Properties of the analysis engine                                       *)
(***************************************************************************)
AllFailed == \A r \in Requests : received[r] = TransportError

\* C2: on a well-typed transcript analyzeTranscript returns a record whatever the
\* three requests do (no wrapper ever rejects), and when all three requests fail
\* the record holds the fallback defaults only.
C2_RecordAlwaysProduced ==
    /\ \A r \in Requests : calls[r].state # "rejected"
    /\ \A i \in 1..Len(outcomes) : docs[i].typed => outcomes[i] = "returned"
    /\ Len(results) = Len(outcomes)
    /\ (Len(results) = 1 /\ AllFailed) =>
          /\ results[1].managementSentiment = getDefaultSentiment
          /\ results[1].qaSentiment = getDefaultSentiment
          /\ results[1].strategicFocuses = getDefaultStrategicFocus

\* all three requests failed and analyzeTranscript returned its record
C2_Witness ==
    /\ epc = "done"
    /\ AllFailed
    /\ outcomes = <<"returned">>
    /\ Len(results) = 1

InRange(x, low, high) == FGeq(x, low) /\ FGeq(high, x)

\* the response shape the prompts ask for (analysis-engine.ts lines 93-99, 179-189)
ViolatesSentimentShape(v) ==
    \/ v.type # "object"
    \/ ~({"sentiment", "score", "confidence"} \subseteq v.has)
    \/ v.sentiment \notin {"positive", "neutral", "negative"}
    \/ ~InRange(v.score, Tenth(-10), Tenth(10))
    \/ ~InRange(v.confidence, Zero, Tenth(10))

ViolatesThemesShape(v) == v.type # "object" \/ "themes" \notin v.has

IsFailedResponse(request, response) ==
    \/ response.kind = "error"
    \/ ~JsonParse(response).ok
    \/ IF request = "themes" THEN ViolatesThemesShape(response.value)
                             ELSE ViolatesSentimentShape(response.value)

\* the field the claim expects for a response: the default on a failure, else the content
ExpectedField(request, response) ==
    IF IsFailedResponse(request, response)
    THEN (IF request = "themes" THEN getDefaultStrategicFocus ELSE getDefaultSentiment)
    ELSE (IF request = "themes" THEN response.value.themes ELSE response.value)

\* C3 as stated: a transport failure, unparseable content or content that violates
\* the expected shape puts the documented default in that field of the record, and
\* each field depends on its own response only.
C3_DefaultOnEveryFailure ==
    (Len(results) = 1 /\ \A r \in Requests : received[r].kind # "none") =>
        /\ results[1].managementSentiment = ExpectedField("mgmt", received["mgmt"])
        /\ results[1].qaSentiment = ExpectedField("qa", received["qa"])
        /\ results[1].strategicFocuses = ExpectedField("themes", received["themes"])

\* indices of the transcripts whose analysis returned, in input order
RECURSIVE ReturnedIds(_)
ReturnedIds(n) ==
    IF n = 0 THEN <<>>
    ELSE IF outcomes[n] = "returned" THEN Append(ReturnedIds(n - 1), docs[n].id)
    ELSE ReturnedIds(n - 1)

RECURSIVE Starts(_)
Starts(log) ==
    IF log = <<>> THEN <<>>
    ELSE IF Head(log)[1] = "start" THEN <<Head(log)[2]>> \o Starts(Tail(log))
    ELSE Starts(Tail(log))

\* C4: transcripts are analyzed one at a time in input order, the results are the
\* records of the transcripts whose analysis succeeded, in input order, a failure
\* never keeps a later transcript from being analyzed, and the result is no longer
\* than the input.
C4_ResultsAreSuccessSubsequence ==
    /\ Len(outcomes) <= Len(docs)
    /\ Len(results) <= Len(docs)
    /\ [j \in 1..Len(results) |-> results[j].transcriptId] = ReturnedIds(Len(outcomes))
    /\ Starts(elog) = [i \in 1..Len(Starts(elog)) |-> i]
    /\ (epc = "done" => Len(outcomes) = Len(docs) /\ Len(Starts(elog)) = Len(docs))

\* a transcript failed and a later one was analyzed and returned
C4_Witness ==
    /\ epc = "done"
    /\ \E i, j \in 1..Len(outcomes) : i < j /\ outcomes[i] = "threw" /\ outcomes[j] = "returned"

(***************************************************************************)
(* Properties of the transcript collector                                  *)
(***************************************************************************)
IsSample(document) == document.url.host = "investor.nvidia.com"

\* C1 as stated: whenever no real source yields a usable document,
\* collectNvidiaTranscripts(n) returns exactly n sample documents, for every n >= 1.
C1_SampleCountIsRequested ==
    (apc = "done" /\ transcripts = <<>>) =>
        /\ Len(acquired) = quarters
        /\ \A k \in 1..Len(acquired) : IsSample(acquired[k])

(***************************************************************************)
(* The four-quarter scenario: Q1..Q4 2024, management scores 0.1, 0.3,     *)
(* 0.6, 0.8, Q&A scores 0, themes as listed                                *)
(***************************************************************************)
ScenarioRecords ==
    << Insight("q1", Q1of2024, Sentiment("neutral", 1), Sentiment("neutral", 0),
               <<"AI", "Gaming">>),
       Insight("q2", Q2of2024, Sentiment("positive", 3), Sentiment("neutral", 0),
               <<"AI", "Gaming">>),
       Insight("q3", Q3of2024, Sentiment("positive", 6), Sentiment("neutral", 0),
               <<"AI", "Gaming", "DataCenter">>),
       Insight("q4", Q4of2024, Sentiment("positive", 8), Sentiment("neutral", 0),
               <<"AI", "DataCenter">>) >>

\* the arrays a caller can hold that list scenario records without repetition
ScenarioArrays ==
    LET n == Len(ScenarioRecords)
        picks == UNION {[1..m -> 1..n] : m \in 0..n}
    IN  {[k \in DOMAIN f |-> ScenarioRecords[f[k]]] :
            f \in {g \in picks : \A i, j \in DOMAIN g : i # j => g[i] # g[j]}}

InitScenario ==
    /\ insights \in ScenarioArrays
    /\ given = <<>>
    /\ tpc = "input"
    /\ report = NoReport
    /\ EngineInit
    /\ CollectorInit
    /\ StoreInit
    /\ PipelineInit
    /\ SplitInit

\* TrendAnalyzer over arrays of scenario records
NextScenario ==
    \/ \E k \in 1..Len(ScenarioRecords) : AddRecord(ScenarioRecords[k])
    \/ analyzeQuarterOverQuarter

SpecScenario == InitScenario /\ [][NextScenario]_vars

(***************************************************************************)
(* Properties of the trend summary and the theme evolution                 *)
(***************************************************************************)
\* C11 as stated: in every report on at least one record, the theme-evolution
\* entry of the earliest quarter has empty emerging and declining lists and its
\* consistent themes are that quarter's own theme set.
C11_EarliestQuarterConvention ==
    (tpc = "done" /\ report.ok /\ Len(given) >= 1) =>
        /\ report.strategicEvolution[1].emergingThemes = <<>>
        /\ report.strategicEvolution[1].decliningThemes = <<>>
        /\ SeqToSet(report.strategicEvolution[1].consistentThemes) = ThemeSet(insights[1])

\* the documented ordinal of a categorical label
Ord(label) ==
    CASE label = "negative" -> 0
      [] label = "neutral"  -> 1
      [] label = "positive" -> 2

\* the documented qualitative shift between two labels
ShiftOfLabels(from, to) ==
    IF from = to THEN "No change"
    ELSE IF Ord(to) > Ord(from) THEN "Improved"
    ELSE "Declined"

\* C12 as stated: the qualitative shift of every Change is "No change" exactly when
\* the two labels are equal, "Improved" exactly when ord(to) > ord(from) and
\* "Declined" exactly when ord(to) < ord(from), with negative=0, neutral=1,
\* positive=2, whatever the scores are.
C12_ShiftFollowsOrdinal ==
    (tpc = "done" /\ report.ok) =>
        \A k \in 1..Len(report.quarterOverQuarterChanges) :
            /\ report.quarterOverQuarterChanges[k].managementChange.sentimentShift[1] =
                  ShiftOfLabels(insights[k].managementSentiment.sentiment,
                                insights[k + 1].managementSentiment.sentiment)
            /\ report.quarterOverQuarterChanges[k].qaChange.sentimentShift[1] =
                  ShiftOfLabels(insights[k].qaSentiment.sentiment,
                                insights[k + 1].qaSentiment.sentiment)

\* the documented direction for a last-minus-first difference of d tenths
DirectionOfTenths(d) ==
    IF d > 2 THEN "improving" ELSE IF d < -2 THEN "declining" ELSE "stable"

\* C13 as stated: on at least 2 records each trend is "improving" iff the last
\* score minus the first score exceeds 0.2, "declining" iff it is below -0.2 and
\* "stable" otherwise, a difference of exactly 0.2 or -0.2 being stable.
C13_TrendOfDecimalDifference ==
    (tpc = "done" /\ report.ok /\ Len(given) >= 2) =>
        /\ report.overallTrendSummary.managementTrend =
              DirectionOfTenths(TenthOf(ScoreOf(insights[Len(insights)].managementSentiment))
                                - TenthOf(ScoreOf(insights[1].managementSentiment)))
        /\ report.overallTrendSummary.qaTrend =
              DirectionOfTenths(TenthOf(ScoreOf(insights[Len(insights)].qaSentiment))
                                - TenthOf(ScoreOf(insights[1].qaSentiment)))

\* the themes of list[k] that list[k - 1] does not carry, in first-occurrence order
EmergedAt(list, k) == FilterNotIn(Dedupe(ThemesOf(list[k])), ThemeSet(list[k - 1]))

\* the emerging themes of the transitions 2..n of list, in order
RECURSIVE EmergedUpTo(_, _)
EmergedUpTo(list, n) ==
    IF n < 2 THEN <<>> ELSE EmergedUpTo(list, n - 1) \o EmergedAt(list, n)

\* the most frequent element of a non-empty list, the first-encountered one on a tie
MostFrequentFirst(list) ==
    list[CHOOSE k \in 1..Len(list) :
            /\ \A j \in 1..Len(list) : Occurrences(list, list[j]) <= Occurrences(list, list[k])
            /\ \A j \in 1..(k - 1) : Occurrences(list, list[j]) < Occurrences(list, list[k])]

\* C14 as stated: on at least 2 records strategicShift is the theme that emerges
\* most often over the transitions (quarter i against quarter i-1, i >= 1), the
\* first-encountered one on a tie, and the "no shift" sentence when no theme
\* emerges at any transition.
C14_ShiftIsMostEmergedTheme ==
    (tpc = "done" /\ report.ok /\ Len(given) >= 2) =>
        LET emerged == EmergedUpTo(insights, Len(insights))
        IN  report.overallTrendSummary.strategicShift =
               (IF emerged = <<>> THEN NoShift ELSE MostFrequentFirst(emerged))

\* C15 as stated: on the four scenario records, in any order, the report has
\* managementTrend "improving", qaTrend "stable", emerging {DataCenter} at Q2->Q3,
\* declining {Gaming} at Q3->Q4 and strategicShift "DataCenter".
C15_EndToEndScenario ==
    (tpc = "done" /\ IsPermutation(given, ScenarioRecords)) =>
        /\ report.ok
        /\ report.overallTrendSummary.managementTrend = "improving"
        /\ report.overallTrendSummary.qaTrend = "stable"
        /\ SeqToSet(report.strategicEvolution[3].emergingThemes) = {"DataCenter"}
        /\ SeqToSet(report.strategicEvolution[4].decliningThemes) = {"Gaming"}
        /\ report.overallTrendSummary.strategicShift = "DataCenter"

HasSentence(keyChanges, opening) ==
    \E k \in 1..Len(keyChanges) : keyChanges[k][1] = opening

\* C16 as stated: keyChanges is never empty; on at least 2 records it holds the
\* management sentence iff managementTrend is improving or declining, the Q&A
\* sentence iff qaTrend is improving or declining, the emerging-themes sentence
\* iff some theme emerged at a transition, and it is the single "no significant
\* changes" sentence exactly when none of these holds.
C16_KeyChangesGating ==
    (tpc = "done" /\ report.ok) =>
        LET summary == report.overallTrendSummary
            changes == summary.keyChanges
            emerged == EmergedUpTo(insights, Len(insights)) # <<>>
        IN  /\ changes # <<>>
            /\ Len(given) >= 2 =>
                  /\ HasSentence(changes, "Management sentiment has improved over time")
                        <=> summary.managementTrend = "improving"
                  /\ HasSentence(changes, "Management sentiment has declined over time")
                        <=> summary.managementTrend = "declining"
                  /\ HasSentence(changes, "Q&A sentiment has become more positive")
                        <=> summary.qaTrend = "improving"
                  /\ HasSentence(changes, "Q&A sentiment has become more negative")
                        <=> summary.qaTrend = "declining"
                  /\ HasSentence(changes, "New strategic focus areas emerged") <=> emerged
                  /\ changes = <<NoChanges>>
                        <=> /\ summary.managementTrend = "stable"
                            /\ summary.qaTrend = "stable"
                            /\ ~emerged

\* C17 as stated: a call leaves the caller's array as it was, same elements in the
\* same order, and a second call on the same array returns an equal report.
C17_CallerListUnchanged ==
    tpc = "done" => (insights = given /\ TrendResult(insights) = report)

(***************************************************************************)
(* Properties of identifiers, reruns and provenance                        *)
(***************************************************************************)
\* every document some request got back so far
ReturnedDocuments ==
    UNION {SeqToSet(returned[i].documents) : i \in 1..Len(returned)}

\* C18 as stated: a document's id is determined by its own quarter label and its
\* own date, for scraped and sample documents alike, so documents of the same
\* quarter and date from two requests have one id and the store keeps one of them.
C18_IdFromQuarterAndDate ==
    /\ \A a, b \in ReturnedDocuments :
          (a.quarter = b.quarter /\ a.date = b.date) => a.id = b.id
    /\ \A x, y \in DOMAIN dbTranscripts :
          (/\ dbTranscripts[x].quarter = dbTranscripts[y].quarter
           /\ dbTranscripts[x].date = dbTranscripts[y].date) => x = y

\* the scenario a sample document was made from: its quarter and its templated text
ScenarioOrder(documents) ==
    [k \in 1..Len(documents) |-> <<documents[k].quarter, documents[k].managementRemarks>>]

\* C19: two requests for the same count that both end without a scraped transcript
\* get the same number of documents, made from the same scenario at each position.
C19_RerunSameScenarios ==
    \A i, j \in 1..Len(returned) :
        (/\ returned[i].scraped = 0
         /\ returned[j].scraped = 0
         /\ returned[i].quarters = returned[j].quarters) =>
            /\ Len(returned[i].documents) = Len(returned[j].documents)
            /\ ScenarioOrder(returned[i].documents) = ScenarioOrder(returned[j].documents)

\* two requests for two quarters fell back to the sample data on different days
C19_Witness ==
    /\ Len(returned) = 2
    /\ returned[1].scraped = 0
    /\ returned[2].scraped = 0
    /\ returned[1].quarters = 2
    /\ returned[2].quarters = 2
    /\ returned[1].documents # returned[2].documents

\* C20 as stated: a returned document carries the sample URL pattern exactly when
\* it is a sample document; no scraped document carries it.
C20_UrlTellsProvenance ==
    apc = "done" =>
        \A k \in 1..Len(acquired) : IsSample(acquired[k]) <=> transcripts = <<>>

(***************************************************************************)
(* Properties of the in-memory store                                       *)
(***************************************************************************)
PutId(put) == IF put.store = "transcripts" THEN put.value.id ELSE put.value.transcriptId

\* the ids written to a store so far
PutIds(store) == {PutId(puts[k]) : k \in {j \in 1..Len(puts) : puts[j].store = store}}

\* the value of the last save call on `store` for `id`
LastPut(store, id) ==
    LET calls_ == {k \in 1..Len(puts) : puts[k].store = store /\ PutId(puts[k]) = id}
    IN  puts[CHOOSE k \in calls_ : \A j \in calls_ : j <= k].value

\* C21: after any sequence of save calls each map holds exactly the ids written to
\* it, each with the value of the last save for that id, getAll returns one value
\* per id, getStats reports the two numbers of distinct ids, and a save on one map
\* leaves the other as it was.
C21_LastWriteWinsPerId ==
    /\ DOMAIN dbTranscripts = PutIds("transcripts")
    /\ DOMAIN dbInsights = PutIds("insights")
    /\ \A id \in DOMAIN dbTranscripts : dbTranscripts[id] = LastPut("transcripts", id)
    /\ \A id \in DOMAIN dbInsights : dbInsights[id] = LastPut("insights", id)
    /\ getAllTranscripts(dbTranscripts) =
          {LastPut("transcripts", id) : id \in PutIds("transcripts")}
    /\ getAllInsights(dbInsights) = {LastPut("insights", id) : id \in PutIds("insights")}
    /\ Cardinality(getAllTranscripts(dbTranscripts)) = Cardinality(PutIds("transcripts"))
    /\ Cardinality(getAllInsights(dbInsights)) = Cardinality(PutIds("insights"))
    /\ getStats = [transcripts |-> Cardinality(PutIds("transcripts")),
                   insights    |-> Cardinality(PutIds("insights"))]

\* a transcript id was saved twice with different contents, and insights were saved too
C21_Witness ==
    /\ \E i, j \in 1..Len(puts) :
          /\ i < j
          /\ puts[i].store = "transcripts"
          /\ puts[j].store = "transcripts"
          /\ PutId(puts[i]) = PutId(puts[j])
          /\ puts[i].value # puts[j].value
    /\ DOMAIN dbInsights # {}

SourceRank(source) == CHOOSE k \in 1..Len(Sources) : Sources[k] = source

\* C23: the sources are searched in the fixed order Seeking Alpha, Yahoo Finance,
\* Motley Fool; a source is searched only while fewer than n candidates have been
\* gathered; the candidates are kept in priority order and cut to n, so that no
\* more than n documents are scraped or returned.
C23_SourcesInPriorityOrder ==
    /\ Sources = <<"Seeking Alpha", "Yahoo Finance", "Motley Fool">>
    /\ \A i, j \in 1..Len(urls) :
          i < j => SourceRank(urls[i].source) <= SourceRank(urls[j].source)
    /\ apc = "search" =>
          /\ Len(urls) < quarters
          /\ \A k \in 1..Len(urls) : SourceRank(urls[k].source) < srcIdx
    /\ Len(urls) <= quarters
    /\ Len(transcripts) <= quarters
    /\ Len(acquired) <= quarters

\* the first source gave too few candidates, the second one filled the list to n
C23_Witness ==
    /\ apc = "scrape"
    /\ quarters = 3
    /\ Len(urls) = 3
    /\ urls[1].source = "Seeking Alpha"
    /\ urls[3].source = "Yahoo Finance"

\* a document made by scrapeTranscript from a fetched page
IsScraped(document) == document.managementRemarks = <<"page text">>

\* C24: the run returns the sample documents exactly when no candidate gave a
\* transcript; otherwise it returns every scraped transcript, in order, and
\* nothing else, so the result is never a mixture.
C24_SampleOnlyWhenNothingScraped ==
    /\ \A k \in 1..Len(transcripts) : IsScraped(transcripts[k])
    /\ apc = "done" =>
          /\ acquired # <<>>
          /\ transcripts # <<>> => acquired = transcripts
          /\ transcripts = <<>> => \A k \in 1..Len(acquired) : ~IsScraped(acquired[k])
          /\ \/ \A k \in 1..Len(acquired) : IsScraped(acquired[k])
             \/ \A k \in 1..Len(acquired) : ~IsScraped(acquired[k])

\* of three candidates one gave a transcript, and the run returned just that one
C24_Witness ==
    /\ apc = "done"
    /\ Len(urls) = 3
    /\ Len(transcripts) = 1
    /\ acquired = transcripts

(***************************************************************************)
(* Properties of splitTranscript                                           *)
(***************************************************************************)
\* marker occurs in t at the 1-based position p, letter case aside
OccursAt(t, marker, p) ==
    /\ p + Len(marker) - 1 <= Len(t)
    /\ \A k \in 1..Len(marker) : ToLower(t[p + k - 1]) = ToLower(marker[k])

Occurs(t, marker) == \E p \in 1..Len(t) : OccursAt(t, marker, p)

\* the number of characters before the cut the claim describes
CutOf(t) ==
    IF \E k \in 1..Len(qaMarkers) : Occurs(t, qaMarkers[k])
    THEN LET first == CHOOSE k \in 1..Len(qaMarkers) :
                         /\ Occurs(t, qaMarkers[k])
                         /\ \A j \in 1..(k - 1) : ~Occurs(t, qaMarkers[j])
             place == CHOOSE p \in 1..Len(t) :
                         /\ OccursAt(t, qaMarkers[first], p)
                         /\ \A q \in 1..(p - 1) : ~OccursAt(t, qaMarkers[first], q)
         IN  place - 1
    ELSE (6 * Len(t)) \div 10

\* C25 as stated: the text is cut where the first marker of the list that occurs
\* in it, letter case aside, occurs, or at floor(0.6 * length) when none occurs;
\* the management part is the trimmed text before the cut and the Q&A part the
\* trimmed text from the cut on.
C25_CutAtFirstListedMarker ==
    parts.called =>
        /\ parts.managementRemarks = trim(SubSeq(text, 1, CutOf(text)))
        /\ parts.qaSection = trim(SubSeq(text, CutOf(text) + 1, Len(text)))

CountOf(log, entry) == Cardinality({k \in 1..Len(log) : log[k] = entry})

\* C27: for one transcript each of the three requests is issued once and answered
\* at most once, in any order; the record exists only when all three wrappers have
\* resolved, and it is determined by the three responses alone.
C27_RecordAfterAllThree ==
    /\ \A r \in Requests :
          /\ CountOf(wire, <<"request", r>>) <= 1
          /\ CountOf(wire, <<"response", r>>) <= CountOf(wire, <<"request", r>>)
    /\ Len(results) = 1 =>
          /\ \A r \in Requests :
                /\ CountOf(wire, <<"request", r>>) = 1
                /\ CountOf(wire, <<"response", r>>) = 1
                /\ calls[r].state = "fulfilled"
                /\ received[r].kind # "none"
          /\ results[1].managementSentiment = analyzeSentiment(received["mgmt"]).value
          /\ results[1].qaSentiment = analyzeSentiment(received["qa"]).value
          /\ results[1].strategicFocuses = extractStrategicFocus(received["themes"]).value

\* the record was produced after the responses came in the reverse of the order
\* the requests were issued in, the first of them a failure
C27_Witness ==
    /\ Len(results) = 1
    /\ SubSeq(wire, 4, 6) = << <<"response", "themes">>, <<"response", "qa">>,
                               <<"response", "mgmt">> >>
    /\ received["themes"] = TransportError
    /\ received["mgmt"] = Json(Positive)

(***************************************************************************)
(* Properties of label parsing and of the score deltas                     *)
(***************************************************************************)
\* C28 as stated: on at least 2 records a label that is not of the form Q<k> <year>
\* with k in 1..4 -- a quarter number outside 1..4, or such a pattern inside other
\* text -- makes the call fail instead of being sorted.
C28_OnlyQuarterLabelsAccepted ==
    (tpc = "done" /\ Len(given) >= 2 /\ ~AllValid(given)) => ~report.ok

\* the sign of a binary64 value: -1, 0 or 1
SignOf(x) == IF IsZero(x) THEN 0 ELSE IF FLess(x, Zero) THEN -1 ELSE 1

SignOfInt(n) == IF n = 0 THEN 0 ELSE IF n < 0 THEN -1 ELSE 1

\* C29: the k-th change is labelled with the later quarter of the k-th adjacent
\* pair of the sorted records; its management delta is the later management score
\* minus the earlier one and its Q&A delta the later Q&A score minus the earlier
\* one, each from its own series (so each has the sign of its own difference).
C29_DeltaIsLaterMinusEarlier ==
    (tpc = "done" /\ report.ok) =>
        \A k \in 1..Len(report.quarterOverQuarterChanges) :
            LET change  == report.quarterOverQuarterChanges[k]
                earlier == insights[k]
                later   == insights[k + 1]
            IN  /\ change.quarter = later.quarter
                /\ change.managementChange.scoreDelta =
                      FSub(later.managementSentiment.score, earlier.managementSentiment.score)
                /\ change.qaChange.scoreDelta =
                      FSub(later.qaSentiment.score, earlier.qaSentiment.score)
                /\ SignOf(change.managementChange.scoreDelta) =
                      SignOfInt(TenthOf(later.managementSentiment.score)
                                - TenthOf(earlier.managementSentiment.score))
                /\ SignOf(change.qaChange.scoreDelta) =
                      SignOfInt(TenthOf(later.qaSentiment.score)
                                - TenthOf(earlier.qaSentiment.score))

\* three records in two quarters: a management delta and a Q&A delta of opposite
\* signs at the same change, and a change labelled with its later quarter
C29_Witness ==
    /\ tpc = "done"
    /\ report.ok
    /\ Len(report.quarterOverQuarterChanges) = 2
    /\ \E k \in 1..2 :
          /\ SignOf(report.quarterOverQuarterChanges[k].managementChange.scoreDelta) = 1
          /\ SignOf(report.quarterOverQuarterChanges[k].qaChange.scoreDelta) = -1
          /\ insights[k].quarter # insights[k + 1].quarter
          /\ report.quarterOverQuarterChanges[k].quarter = insights[k + 1].quarter

(***************************************************************************)
(* Properties of the POST pipeline                                         *)
(***************************************************************************)
\* C30 as stated: with reanalyze = false no transcript id is handed to the
\* analysis engine more than once over all requests, interleaved ones included.
C30_EachIdAnalyzedOnce ==
    \A id \in SeqToSet(analyses) : Occurrences(analyses, id) <= 1

====
